---- MODULE Spec2Model ----
(***************************************************************************)
(* State-machine model of the storefront theme's client orchestration:     *)
(*   - FacetFilters      (src/assets/main.js, applyFilters and handlers)   *)
(*   - CustomPagination  (src/unnamed/part_000, loadMore and its triggers) *)
(*   - CartDrawer        (src/assets/cart-drawer.js, refresh, open and     *)
(*                        renderContents)                                  *)
(*   - SideDrawer, ProductRecommendations, DeferredMedia, the lazy loaders *)
(*     and debounce (src/assets/main.js), CartTerms                        *)
(*     (src/assets/cart-terms.js)                                          *)
(* Every suspension point of the code (await fetch, await response.text(), *)
(* timers, event dispatch) is a boundary between two actions; everything   *)
(* the code does between two suspension points is one action.              *)
(***************************************************************************)
EXTENDS Integers, Sequences, FiniteSets, TLC

(***************************************************************************)
(* Bounds of the model.                                                    *)
(***************************************************************************)
\* applyFilters calls per behaviour
MaxCalls == 2
\* pages the server can serve for one result set
MaxPages == 3
\* loadMore fetches per behaviour
MaxFetches == 3
\* refresh and renderContents calls on the cart drawer per behaviour
MaxRefresh == 2
\* invocations of a debounced function per behaviour, and how far the
\* clock runs (in units of time; the wait of the debounce is DebWait)
MaxInvocations == 3
MaxTime == 6
DebWait == 2
\* submits of the cart form per behaviour
MaxSubmits == 2
\* open() and close() calls on a side drawer per behaviour
MaxToggles == 5
\* open() and close() calls on a disclosure per behaviour
MaxDisclosureOps == 4
\* open() and close() calls on a modal per behaviour
MaxModalOps == 7
\* tables inside a modal
MaxTables == 3
\* user events on the main menu per behaviour
MaxMenuOps == 4
\* loadContent calls on a deferred-media element per behaviour
MaxLoads == 3

CallIds == 1..MaxCalls

(***************************************************************************)
(* Search parameter strings.  The form has one filter field and one        *)
(* sort_by field; "" is the empty string of the code.                      *)
(***************************************************************************)
FilterVals == {"", "Red"}
SortVals == {"", "price"}

\* URLSearchParams.toString() of the entries left after the empty ones
\* have been deleted
ToQuery(f, s) ==
    CASE f = "" /\ s = "" -> ""
      [] f # "" /\ s = "" -> "filter.v.option.color=Red"
      [] f = "" /\ s # "" -> "sort_by=price"
      [] OTHER -> "filter.v.option.color=Red&sort_by=price"

Params == {ToQuery(f, s) : f \in FilterVals, s \in SortVals}

\* The queries of the 'clear' and active-filter links the user clicks
ClickHrefs == {""}

\* The form fields the server renders for a query string
FilterOf(p) == IF p \in {ToQuery("Red", s) : s \in SortVals} THEN "Red" ELSE ""
SortOf(p) == IF p \in {ToQuery(f, "price") : f \in FilterVals} THEN "price" ELSE ""

\* The filter groups (details elements) of the form
Groups == {"color", "size"}

\* The groups the server renders with .js-hidden items and a 'show more'
\* control in the response for p
RespCollapsed(p) == IF FilterOf(p) = "Red" THEN {"size"} ELSE Groups

\* The groups the server renders with an open details element
RespOpen(p) == IF FilterOf(p) = "Red" THEN {"color"} ELSE {}

\* The class of the results <ul> as the server renders it
ServerUlClass == "grid"

(***************************************************************************)
(* URLSearchParams, as handleFilterChange uses it.  An entry is a record   *)
(* [k, v]; the value null of the code is the string "null" it is turned    *)
(* into by URLSearchParams.set.                                            *)
(***************************************************************************)
\* fields of the form per handleFilterChange call
MaxFields == 3

FormKeys == {"filter.v.option.color", "sort_by"}
FormVals == {"", "Red", "price"}

FormContents == UNION {[1..n -> [k : FormKeys, v : FormVals]] : n \in 0..MaxFields}

\* searchParams.get(k): the value of the first entry with key k, or null
SpGet(sp, k) ==
    LET idx == {j \in 1..Len(sp) : sp[j].k = k}
    IN IF idx = {} THEN "null" ELSE sp[CHOOSE j \in idx : \A m \in idx : j <= m].v

\* searchParams.delete(k): every entry with key k goes
SpDelete(sp, k) ==
    LET Other(e) == e.k # k IN SelectSeq(sp, Other)

\* searchParams.set(k, v): the first entry with key k takes value v and the
\* other entries with key k go; without such an entry, one is appended
SpSet(sp, k, v) ==
    LET idx == {j \in 1..Len(sp) : sp[j].k = k}
        f == CHOOSE j \in idx : \A m \in idx : j <= m
    IN IF idx = {} THEN Append(sp, [k |-> k, v |-> v])
       ELSE SubSeq(sp, 1, f - 1) \o <<[k |-> k, v |-> v]>> \o SpDelete(SubSeq(sp, f + 1, Len(sp)), k)

\* searchParams.toString(), percent-encoding left out
RECURSIVE SpToString(_)
SpToString(sp) ==
    IF sp = <<>> THEN ""
    ELSE Head(sp).k \o "=" \o Head(sp).v \o (IF Len(sp) > 1 THEN "&" \o SpToString(Tail(sp)) ELSE "")

\* Mutant of StripEmpty: nothing is removed
KeepAll(sp) == sp

\* "Get empty parameters" and "Remove empty parameters": every key that
\* has an entry with an empty value is deleted
StripEmpty(sp) ==
    LET emptyParams == {sp[j].k : j \in {m \in 1..Len(sp) : sp[m].v = ""}}
        Kept(e) == e.k \notin emptyParams
    IN SelectSeq(sp, Kept)

\* The entries handleFilterChange(evt) passes on, for the form entries
\* form.  evt.sorting is this.sortingEnabled, evt.fromSelect says that
\* evt.target is the CUSTOM-SELECT, evt.selected is evt.detail.selectedValue
\* and evt.options that this.mobileSortByOptions is not empty
FilterChangeParams(form, evt) ==
    LET currentSortBy == IF evt.fromSelect /\ evt.options THEN evt.selected
                         ELSE SpGet(form, "sort_by")
    IN StripEmpty(IF evt.sorting THEN SpSet(form, "sort_by", currentSortBy) ELSE form)

FilterChangeEvents ==
    [sorting : BOOLEAN, fromSelect : BOOLEAN, options : BOOLEAN, selected : {"", "price"}]

NoFilterChange == [done |-> FALSE, entries |-> <<>>, query |-> ""]

\* window.location.pathname; pushState changes the query only
Path == "/collections/x"

\* The URL applyFilters fetches for params p when the form's
\* data-filter-section-id is sid ("": not declared)
FetchUrl(p, sid) ==
    Path \o "?" \o p \o (IF sid # "" THEN "&section_id=" \o sid ELSE "")

\* Mutant of PushUrl: the '?' is there whatever p is
PushUrlAlwaysQuery(p) == Path \o "?" \o p

\* The URL updateURL pushes: pathname, then searchParams && '?' + searchParams
PushUrl(p) == Path \o (IF p # "" THEN "?" \o p ELSE "")

\* window.history entries: the state (null, or { searchParams }) and the URL
NullState == [isNull |-> TRUE, searchParams |-> "", url |-> Path]
StateOf(p) == [isNull |-> FALSE, searchParams |-> p, url |-> PushUrl(p)]

VARIABLES
    \* ---- FacetFilters ----
    calls,            \* the applyFilters calls: params, updateUrl, src and st of a call in
                      \* progress; a call that has returned keeps only how it ended
    nCalls,           \* number of applyFilters calls started so far
    abortCtl,         \* this.applyFiltersFetchAbortController: 0 = undefined, else the call that made it
    formHtml,         \* innerHTML of #facets: [by |-> call that wrote it (0 = page load), p |-> query rendered]
    resultsHtml,      \* innerHTML of #filter-results, same shape
    closeBtnText,     \* innerText of .js-close-drawer-mob, same shape
    resultsLoading,   \* #filter-results has class is-loading
    closeBtnLoading,  \* close button has is-loading / aria-disabled
    formFilter,       \* live value of the filter field of the form
    formSort,         \* live value of the sort_by field of the form
    layout,           \* which listened-to elements lie inside a replaced subtree
    sectionId,        \* this.form.dataset.filterSectionId: "" when the form declares none
    fcForm,           \* handleFilterChange: the entries of new FormData(this.form), in order
    fcEvt,            \* handleFilterChange: the event and the configuration it is handled under
    fcOut,            \* handleFilterChange: the entries and the string passed to applyFilters
    cartCfg,          \* CartDrawer: what the page gives the element (errorMsg, data-shipping-calculator)
    drawer,           \* CartDrawer: the element, its content and what it has done so far
    cartCalls,        \* CartDrawer: the refresh and renderContents calls made so far
    nRefresh,         \* CartDrawer: number of those calls
    sdOpen,           \* SideDrawer: the element has the 'open' attribute
    sdTimers,         \* SideDrawer: pending setTimeout callbacks, in the order they were set
    sdEvents,         \* SideDrawer: the lifecycle events dispatched so far, in order
    sdCalls,          \* SideDrawer: number of open() and close() calls made so far
    qaVisible,        \* a quick-add drawer with aria-hidden="false" is in the document
    sdClickOn,        \* SideDrawer: clickHandler is a 'click' listener of the drawer and the overlay
    sdKeyups,         \* SideDrawer: number of 'keyup' listeners open() has left on the drawer
    sdKeyCur,         \* SideDrawer: this.keyupHandler is one of them
    trapOwner,        \* the container of the focus trap held in trapFocusHandlers, or "none"
    bodyFixed,        \* document.body has the class 'fixed' (page scroll lock)
    viewportLg,       \* theme.mediaMatches.lg
    fdOpen,           \* FacetFilters (a SideDrawer): the element has the 'open' attribute
    ctChecked,        \* CartTerms: cartTermsCheckbox.checked
    ctListening,      \* CartTerms: submitHandler is a 'submit' listener of the form
    ctLog,            \* CartTerms: the submits of the form so far and what was done to each
    browser,          \* what the browser has: IntersectionObserver, native lazy loading
    recs,             \* ProductRecommendations: the element, its content and the progress of init
    img,              \* the [loading="lazy"] images: "new", "observed" or "loaded" (sources set)
    media,            \* DeferredMedia: whether it has a load button, and its state
    dbNow,            \* debounce: the clock
    dbTimers,         \* debounce: the pending timers, each [id, due, arg]
    dbT,              \* debounce: the variable t of the closure (0: undefined)
    dbLog,            \* debounce: the invocations of the returned function and the calls of fn, in order
    dd,               \* DetailsDisclosure / CartDrawerDisclosure: the element, its details and panel
    ddOps,            \* DetailsDisclosure: number of open() and close() calls made so far
    modal,            \* Modal: the element, its listeners and the tables inside it
    modalOps,         \* Modal: number of open() and close() calls made so far
    menu,             \* MainMenu: the element, its top-level disclosures and the overlay
    menuOps,          \* MainMenu: number of user events handled so far
    filtersListeners, \* 'input'/'click' listener pairs on the current .facets__filters element
    sortListeners,    \* 'change' listeners on the current .products-toolbar__sort element
    debCur,           \* armed debounce timers of listeners of the current filters element
    debOld,           \* armed debounce timers of listeners of replaced filters elements
    dispatch,         \* synchronous event dispatch in progress
    histEntries,      \* session history: sequence of entry states
    histIdx,          \* current entry
    pushed,           \* number of history.pushState calls made so far
    warned,           \* number of console.warn calls made so far
    expanded,         \* this.expanded: ids of the filter groups expanded with 'show more'
    formOpen,         \* groups of the live form whose details element is open
    formCollapsed,    \* groups of the live form that have .js-hidden items and a 'show more' control
    resultsUl,        \* class of the <ul> of the live results: "none" when there is no <ul>
    currentResultsClass, \* this.currentResultsClass: "none" when undefined
    \* ---- CustomPagination ----
    pauseInfiniteScroll, \* dataset.pauseInfiniteScroll = 'true'
    pgInfinite,       \* dataset.infiniteScroll = 'true'
    domPg,            \* live .js-pagination element: "absent", "more" (data-is-more-results) or "last"
    domHref,          \* page the live load-more button links to
    domPgOnly,        \* .js-when-paginated-only elements are in the document
    domItems,         \* .js-pagination-result items of the live DOM, in order
    pagination,       \* this.pagination: "null", "live" or "detached"
    pgResults,        \* this.results: the result items found by the last querySelectorAll
    loadMoreButton,   \* this.loadMoreButton: "null", "live" or "detached"
    btnHref,          \* href of this.loadMoreButton
    btnClick,         \* click listener bound on this.loadMoreButton
    btnLoading,       \* this.loadMoreButton has is-loading
    isFetching,       \* this.isFetching
    controller,       \* this.controller: "null" or "set"
    pgReq,            \* the loadMore call in progress: [phase, page, signal]
    observer,         \* this.paginationObserver: "none", "idle" (observing, nothing reported), "in", "out"
    timerCur,         \* the interval whose id is in this.intersectingTimer is running
    timersLeaked,     \* running intervals whose id has been overwritten
    pgFetches,        \* fetches issued by loadMore so far
    pgExhausted,      \* a response without data-is-more-results has been handled
    pgLast            \* what the last loadMore step did

\* State of the page that the handlers of FacetFilters and
\* CustomPagination modelled here never write
fcVars == <<fcForm, fcEvt, fcOut>>

cartVars == <<cartCfg, drawer, cartCalls, nRefresh>>

sdWired == <<sdClickOn, sdKeyups, sdKeyCur>>

pageLock == <<trapOwner, bodyFixed>>

fdVars == <<viewportLg, fdOpen>>

sideVars == <<sdOpen, sdTimers, sdEvents, sdCalls, qaVisible, sdWired, pageLock, fdVars>>

termsVars == <<ctChecked, ctListening, ctLog>>

lazyVars == <<browser, recs, img, media>>

debVars == <<dbNow, dbTimers, dbT, dbLog>>

ddVars == <<dd, ddOps>>

modalVars == <<modal, modalOps>>

menuVars == <<menu, menuOps>>

extraVars == <<ddVars, modalVars, menuVars>>

otherVars == <<layout, sectionId, fcVars, cartVars, sideVars, termsVars, lazyVars, debVars, extraVars>>

uiVars == <<expanded, formOpen, formCollapsed, resultsUl, currentResultsClass>>

facetCoreVarsButUi == <<calls, nCalls, abortCtl, formHtml, resultsHtml, closeBtnText,
                        resultsLoading, closeBtnLoading, formFilter, formSort, filtersListeners,
                        sortListeners, debCur, debOld, dispatch, histEntries, histIdx, pushed,
                        warned>>

facetCoreVars == <<facetCoreVarsButUi, uiVars>>

facetVars == <<facetCoreVars, otherVars>>

pgDomVars == <<domPg, domHref, domPgOnly, domItems>>

pgObjVars == <<pagination, pgResults, loadMoreButton, btnHref, btnClick, btnLoading, controller,
               observer, timerCur>>

pgRunVars == <<isFetching, pgReq, timersLeaked, pgFetches, pgExhausted, pgLast, pgInfinite>>

pgVars == <<pauseInfiniteScroll, pgDomVars, pgObjVars, pgRunVars>>

vars == <<facetVars, pgVars>>

\* The variables of FacetFilters and CustomPagination, and for each of the
\* other components the variables that are not its own
mainVars == <<facetCoreVars, layout, sectionId, pgVars>>
restFc == <<mainVars, cartVars, sideVars, termsVars, lazyVars, debVars, extraVars>>
restCart == <<mainVars, fcVars, sideVars, termsVars, lazyVars, debVars, extraVars>>
restSide == <<mainVars, fcVars, cartVars, termsVars, lazyVars, debVars, extraVars>>
restTerms == <<mainVars, fcVars, cartVars, sideVars, lazyVars, debVars, extraVars>>
restLazy == <<mainVars, fcVars, cartVars, sideVars, termsVars, debVars, extraVars>>
restDeb == <<mainVars, fcVars, cartVars, sideVars, termsVars, lazyVars, extraVars>>
oldVars == <<fcVars, cartVars, sideVars, termsVars, lazyVars, debVars>>
restDd == <<mainVars, oldVars, modalVars, menuVars>>
sideVarsButLock == <<sdOpen, sdTimers, sdEvents, sdCalls, qaVisible, sdWired, fdVars>>
restModal == <<mainVars, fcVars, cartVars, sideVarsButLock, termsVars, lazyVars, debVars, ddVars,
               menuVars>>
restMenu == <<mainVars, fcVars, cartVars, sideVarsButLock, bodyFixed, termsVars, lazyVars, debVars,
              ddVars, modalVars>>

(***************************************************************************)
(* CustomPagination                                                        *)
(***************************************************************************)
PgIdle == [phase |-> "idle", page |-> 0, gen |-> 0]

\* reload(): destroy() followed by init(), against a DOM whose pagination
\* element is dp and whose load-more button links to page dh; fresh: the
\* elements are new ones (the subtree has been replaced).
\* destroy() clears the current interval, disconnects the observer and
\* unbinds the click listeners; init() re-queries the elements, resets
\* this.controller, and binds the click listener and a new observer only
\* when a pagination element with data-is-more-results exists.
Reload(dp, dh, fresh) ==
    /\ pagination' = (IF dp = "absent" THEN "null" ELSE "live")
    /\ pgResults' = domItems'
    /\ loadMoreButton' = (IF dp = "more" THEN "live" ELSE "null")
    /\ btnHref' = (IF dp = "more" THEN dh ELSE 0)
    /\ btnClick' = (dp = "more")
    /\ btnLoading' = (IF dp = "more" /\ loadMoreButton = "live" /\ ~fresh THEN btnLoading ELSE FALSE)
    /\ controller' = "null"
    /\ observer' = (IF dp = "more" /\ pgInfinite THEN "idle" ELSE "none")
    /\ timerCur' = FALSE

\* catch + finally of loadMore: the error is logged, the current interval
\* is cleared, this.controller is reset, the button leaves its loading
\* state and isFetching returns to false.
LoadMoreFailed(what) ==
    /\ timerCur' = FALSE
    /\ controller' = "null"
    /\ btnLoading' = FALSE
    /\ isFetching' = FALSE
    /\ pgReq' = PgIdle
    /\ pgLast' = what

\* Mutant of LoadMoreGuard: isFetching is not consulted
LoadMoreGuardPauseOnly == ~pauseInfiniteScroll

\* "if (!this.isFetching && this.dataset.pauseInfiniteScroll === 'false')"
LoadMoreGuard == ~isFetching /\ ~pauseInfiniteScroll

\* loadMore(), up to its first await.  setTimer: the caller (the observer
\* callback) starts a new interval right after the call returns.
LoadMore(setTimer) ==
    IF LoadMoreGuard
    THEN IF loadMoreButton = "null"
         THEN \* "No 'Load more' button found." is thrown and caught
              /\ timerCur' = setTimer
              /\ controller' = "null"
              /\ UNCHANGED <<timersLeaked, pgFetches, btnLoading, isFetching, pgReq>>
              /\ pgLast' = "nobutton"
         ELSE /\ pgFetches < MaxFetches
              /\ isFetching' = TRUE
              /\ controller' = "set"
              /\ btnLoading' = TRUE
              /\ pgReq' = [phase |-> "fetch", page |-> btnHref, gen |-> resultsHtml.by]
              /\ pgFetches' = pgFetches + 1
              /\ timerCur' = (timerCur \/ setTimer)
              /\ timersLeaked' = (IF setTimer /\ timerCur THEN timersLeaked + 1 ELSE timersLeaked)
              /\ pgLast' = "started"
    ELSE /\ timerCur' = (timerCur \/ setTimer)
         /\ timersLeaked' = (IF setTimer /\ timerCur THEN timersLeaked + 1 ELSE timersLeaked)
         /\ UNCHANGED <<pgFetches, btnLoading, isFetching, pgReq, controller>>
         /\ pgLast' = "noop"

\* No microtask (the continuation of an aborted await, of loadMore or of
\* applyFilters) is pending
PgQuiet == pgReq.phase # "aborted" /\ \A i \in CallIds : calls[i].st # "aborted"

\* click on the load-more button of the live DOM
HandleLoadMoreClick ==
    /\ PgQuiet
    /\ domPg = "more" /\ loadMoreButton = "live" /\ btnClick
    /\ LoadMore(FALSE)
    /\ UNCHANGED <<facetVars, pauseInfiniteScroll, pgDomVars, pagination, pgResults, loadMoreButton, btnHref,
                   btnClick, observer, pgExhausted, pgInfinite>>

\* loadMore() called on the element by any other caller
LoadMoreCall ==
    /\ PgQuiet
    /\ LoadMore(FALSE)
    /\ UNCHANGED <<facetVars, pauseInfiniteScroll, pgDomVars, pagination, pgResults, loadMoreButton, btnHref,
                   btnClick, observer, pgExhausted, pgInfinite>>

\* a tick of a running interval
TimerTick ==
    /\ PgQuiet
    /\ timerCur \/ timersLeaked > 0
    /\ LoadMore(FALSE)
    /\ UNCHANGED <<facetVars, pauseInfiniteScroll, pgDomVars, pagination, pgResults, loadMoreButton, btnHref,
                   btnClick, observer, pgExhausted, pgInfinite>>

\* observer callback, entry.isIntersecting
ObserverIn ==
    /\ PgQuiet
    /\ observer \in {"idle", "out"}
    /\ observer' = "in"
    /\ LoadMore(TRUE)
    /\ UNCHANGED <<facetVars, pauseInfiniteScroll, pgDomVars, pagination, pgResults, loadMoreButton, btnHref,
                   btnClick, pgExhausted, pgInfinite>>

\* observer callback, not intersecting: the current interval is cleared
ObserverOut ==
    /\ PgQuiet
    /\ observer \in {"idle", "in"}
    /\ observer' = "out"
    /\ timerCur' = FALSE
    /\ pgLast' = "left"
    /\ UNCHANGED <<facetVars, pauseInfiniteScroll, pgDomVars, pagination, pgResults, loadMoreButton, btnHref,
                   btnClick, btnLoading, controller, isFetching, pgReq, timersLeaked, pgFetches,
                   pgExhausted, pgInfinite>>

\* click on a link inside a result: aborts the fetch in flight, if
\* this.controller is set
HandleResultClick ==
    /\ PgQuiet
    /\ pgReq' = (IF controller = "set" /\ pgReq.phase \in {"fetch", "text"}
                 THEN [pgReq EXCEPT !.phase = "aborted"] ELSE pgReq)
    /\ pgLast' = "resultclick"
    /\ UNCHANGED <<facetVars, pauseInfiniteScroll, pgDomVars, pgObjVars, isFetching, timersLeaked,
                   pgFetches, pgExhausted, pgInfinite>>

\* the aborted await rejects: catch and finally run
PgSettleAborted ==
    /\ pgReq.phase = "aborted"
    /\ LoadMoreFailed("aborted")
    /\ UNCHANGED <<facetVars, pauseInfiniteScroll, pgDomVars, pagination, pgResults, loadMoreButton, btnHref,
                   btnClick, observer, timersLeaked, pgFetches, pgExhausted, pgInfinite>>

\* Mutant of InterruptedOnArrival: the pause flag is not read again
PauseNotReadOnArrival == FALSE

\* "if (this.dataset.pauseInfiniteScroll === 'true') throw new Error(...)"
InterruptedOnArrival == pauseInfiniteScroll

\* the fetch settles: ok is response.ok, err a network error
PgFetchSettle(ok, err) ==
    /\ PgQuiet
    /\ pgReq.phase = "fetch"
    /\ IF err THEN LoadMoreFailed("neterror")
       ELSE IF ~ok THEN LoadMoreFailed("notok")
       ELSE IF InterruptedOnArrival THEN LoadMoreFailed("interrupted")
       ELSE /\ pgReq' = [pgReq EXCEPT !.phase = "text"]
            /\ pgLast' = "reading"
            /\ UNCHANGED <<timerCur, controller, btnLoading, isFetching>>
    /\ UNCHANGED <<facetVars, pauseInfiniteScroll, pgDomVars, pagination, pgResults, loadMoreButton, btnHref,
                   btnClick, observer, timersLeaked, pgFetches, pgExhausted, pgInfinite>>

\* reading the body fails
PgTextError ==
    /\ PgQuiet
    /\ pgReq.phase = "text"
    /\ LoadMoreFailed("neterror")
    /\ UNCHANGED <<facetVars, pauseInfiniteScroll, pgDomVars, pagination, pgResults, loadMoreButton, btnHref,
                   btnClick, observer, timersLeaked, pgFetches, pgExhausted, pgInfinite>>

\* Mutant of RemovePagination: the interval and the observer are left running
RemovePaginationKeepTimer ==
    /\ domPg' = (IF pagination = "live" THEN "absent" ELSE domPg)
    /\ pagination' = "detached"
    /\ loadMoreButton' = "detached"
    /\ timerCur' = timerCur
    /\ observer' = observer
    /\ domPgOnly' = FALSE

\* The response's pagination element has no data-is-more-results: the
\* live pagination element (with the load-more button in it) is removed,
\* the current interval is cleared, the observer is disconnected and the
\* .js-when-paginated-only elements are removed
RemovePagination ==
    /\ domPg' = (IF pagination = "live" THEN "absent" ELSE domPg)
    /\ pagination' = "detached"
    /\ loadMoreButton' = "detached"
    /\ timerCur' = FALSE
    /\ observer' = "none"
    /\ domPgOnly' = FALSE

\* Mutant of InsertAfterLast: the page is inserted after the first known result
InsertAfterFirst(items, known, new) ==
    LET k == CHOOSE j \in 0..Len(items) : (j = 0 /\ \A m \in 1..Len(items) : items[m] # known[1])
                                          \/ (j > 0 /\ items[j] = known[1])
    IN IF k = 0 THEN items
       ELSE SubSeq(items, 1, k) \o <<new>> \o SubSeq(items, k + 1, Len(items))

\* lastResult.insertAdjacentHTML('afterend', ...): the results of the page
\* (new) go right after the last item of this.results (known), wherever
\* that item is in the list of the live DOM (items); when it is no longer
\* in the document, the live list does not change
InsertAfterLast(items, known, new) ==
    LET last == known[Len(known)]
        k == CHOOSE j \in 0..Len(items) : (j = 0 /\ \A m \in 1..Len(items) : items[m] # last)
                                          \/ (j > 0 /\ items[j] = last)
    IN IF k = 0 THEN items
       ELSE SubSeq(items, 1, k) \o <<new>> \o SubSeq(items, k + 1, Len(items))

\* The body has been read.  shape is the .js-pagination element of the
\* response: "more", "last" or "missing".  The results of the page are
\* inserted after the last result; then the pagination control is updated
\* or removed.
PgTextOk(shape) ==
    /\ PgQuiet
    /\ pgReq.phase = "text"
    /\ shape = "more" => pgReq.page < MaxPages
    /\ domItems' = InsertAfterLast(domItems, pgResults,
                                   [gen |-> pgReq.gen, page |-> pgReq.page, n |-> pgFetches])
    /\ pgResults' = domItems'
    /\ pgReq' = PgIdle
    /\ controller' = "null"
    /\ isFetching' = FALSE
    /\ btnLoading' = FALSE
    /\ CASE shape = "missing" ->
              \* newPagination is null: TypeError, caught
              /\ timerCur' = FALSE
              /\ pgLast' = "nopagination"
              /\ UNCHANGED <<domPg, domHref, domPgOnly, pagination, loadMoreButton, btnHref,
                             btnClick, observer, pgExhausted>>
         [] shape = "more" /\ pagination = "live" ->
              /\ domHref' = pgReq.page + 1
              /\ btnHref' = pgReq.page + 1
              /\ loadMoreButton' = "live"
              /\ btnClick' = TRUE
              /\ pgLast' = "appended"
              /\ UNCHANGED <<domPg, domPgOnly, pagination, observer, timerCur, pgExhausted>>
         [] shape = "more" /\ pagination = "detached" ->
              \* the detached control is rewritten; no button is found in
              \* the element: TypeError, caught
              /\ loadMoreButton' = "null"
              /\ btnHref' = 0
              /\ btnClick' = FALSE
              /\ timerCur' = FALSE
              /\ pgLast' = "nobutton"
              /\ UNCHANGED <<domPg, domHref, domPgOnly, pagination, observer, pgExhausted>>
         [] shape # "missing" /\ pagination = "null" ->
              \* this.pagination is null: TypeError, caught
              /\ timerCur' = FALSE
              /\ pgLast' = "nopagination"
              /\ UNCHANGED <<domPg, domHref, domPgOnly, pagination, loadMoreButton, btnHref,
                             btnClick, observer, pgExhausted>>
         [] shape = "last" /\ pagination # "null" ->
              /\ RemovePagination
              /\ pgExhausted' = TRUE
              /\ pgLast' = "exhausted"
              /\ UNCHANGED <<domHref, btnHref, btnClick>>
    /\ UNCHANGED <<facetVars, pauseInfiniteScroll, timersLeaked, pgFetches, pgInfinite>>

\* on:bfcache:load-restore: reload()
BfcacheReload ==
    /\ PgQuiet
    /\ UNCHANGED pgDomVars
    /\ Reload(domPg, domHref, FALSE)
    /\ pgLast' = "reloaded"
    /\ UNCHANGED <<facetVars, pauseInfiniteScroll, isFetching, pgReq, timersLeaked,
                   pgFetches, pgExhausted, pgInfinite>>

PgNext ==
    \/ HandleLoadMoreClick
    \/ LoadMoreCall
    \/ TimerTick
    \/ ObserverIn
    \/ ObserverOut
    \/ HandleResultClick
    \/ PgSettleAborted
    \/ \E ok \in BOOLEAN, err \in BOOLEAN : PgFetchSettle(ok, err)
    \/ PgTextError
    \/ \E shape \in {"more", "last", "missing"} : PgTextOk(shape)
    \/ BfcacheReload

(***************************************************************************)
(* FacetFilters                                                            *)
(***************************************************************************)
NoCall == [params |-> "", updateUrl |-> FALSE, src |-> "none", st |-> "unused", fetchUrl |-> ""]

Html(i, p) == [by |-> i, p |-> p]

\* No continuation of an aborted await is pending: such a continuation is
\* a microtask and runs before any other event is handled
FacetQuiet == pgReq.phase # "aborted" /\ \A i \in CallIds : calls[i].st # "aborted"

\* No event is being dispatched
NoDispatch == [kind |-> "none", val |-> "", left |-> 0, made |-> 0]

DispatchIdle == dispatch.left = 0

\* Mutant of AbortPrevious: the previous controller is never aborted
NoAbort(cs, ctl) == cs

\* Mutant of AbortPrevious: only a request whose fetch has not resolved yet
\* is aborted; one whose body is being read is left alone
AbortOnlyFetching(cs, ctl) ==
    [i \in CallIds |->
        IF i = ctl /\ cs[i].st = "fetch"
        THEN [cs[i] EXCEPT !.st = "aborted"]
        ELSE cs[i]]

\* "Cancel current fetch request": abort() on the controller of the
\* previous call, if there is one.  A request that is still awaited (the
\* fetch or the body read) becomes aborted; a settled one is unaffected.
AbortPrevious(cs, ctl) ==
    [i \in CallIds |->
        IF i = ctl /\ cs[i].st \in {"fetch", "text"}
        THEN [cs[i] EXCEPT !.st = "aborted"]
        ELSE cs[i]]

\* applyFilters(searchParams, evt, updateUrl) up to `await fetch(...)`
ApplyFilters(p, u, src) ==
    /\ nCalls < MaxCalls
    /\ nCalls' = nCalls + 1
    /\ pauseInfiniteScroll' = TRUE
    /\ resultsLoading' = TRUE
    /\ closeBtnLoading' = TRUE
    /\ calls' = [AbortPrevious(calls, abortCtl) EXCEPT
                    ![nCalls + 1] = [params |-> p, updateUrl |-> u, src |-> src, st |-> "fetch",
                                    fetchUrl |-> FetchUrl(p, sectionId)]]
    /\ abortCtl' = nCalls + 1

\* catch (console.warn) when warn, and finally (is-loading removed from the
\* results), ending call i in state st
Settle(i, st, warn) ==
    /\ calls' = [calls EXCEPT ![i] = [NoCall EXCEPT !.src = calls[i].src, !.st = st]]
    /\ warned' = warned + (IF warn THEN 1 ELSE 0)
    /\ resultsLoading' = FALSE

\* The fetch of call i settles: "ok" (response.ok), "notok" (any other
\* status) or "error" (the promise rejects on a network failure)
FetchSettle(i, kind) ==
    /\ FacetQuiet /\ DispatchIdle
    /\ calls[i].st = "fetch"
    /\ CASE kind = "ok" ->
              /\ calls' = [calls EXCEPT ![i].st = "text"]
              /\ UNCHANGED <<warned, resultsLoading>>
         [] kind = "notok" -> Settle(i, "notOk", FALSE)
         [] kind = "error" -> Settle(i, "netError", TRUE)
    /\ UNCHANGED <<nCalls, abortCtl, formHtml, resultsHtml, closeBtnText, closeBtnLoading,
                   formFilter, formSort, otherVars, uiVars, filtersListeners, sortListeners, debCur, debOld,
                   dispatch, histEntries, histIdx, pushed, pgVars>>

\* The awaited promise of an aborted call rejects with the abort reason
SettleAborted(i) ==
    /\ calls[i].st = "aborted"
    /\ Settle(i, "abortedDone", TRUE)
    /\ UNCHANGED <<nCalls, abortCtl, formHtml, resultsHtml, closeBtnText, closeBtnLoading,
                   formFilter, formSort, otherVars, uiVars, filtersListeners, sortListeners, debCur, debOld,
                   dispatch, histEntries, histIdx, pushed, pgVars>>

\* Reading the body of call i fails
TextError(i) ==
    /\ FacetQuiet /\ DispatchIdle
    /\ calls[i].st = "text"
    /\ Settle(i, "netError", TRUE)
    /\ UNCHANGED <<nCalls, abortCtl, formHtml, resultsHtml, closeBtnText, closeBtnLoading,
                   formFilter, formSort, otherVars, uiVars, filtersListeners, sortListeners, debCur, debOld,
                   dispatch, histEntries, histIdx, pushed, pgVars>>

\* FacetFilters.updateURL: history.pushState({ searchParams }, '', url)
UpdateURL(i, p) ==
    /\ histEntries' = Append(SubSeq(histEntries, 1, histIdx), StateOf(p))
    /\ histIdx' = histIdx + 1
    /\ pushed' = pushed + 1

\* Mutant of MaybeUpdateURL: the URL is updated whatever updateUrl is
AlwaysUpdateURL(i, p, u) == UpdateURL(i, p)

\* "if (updateUrl) FacetFilters.updateURL(searchParams)"
MaybeUpdateURL(i, p, u) ==
    IF u THEN UpdateURL(i, p) ELSE UNCHANGED <<histEntries, histIdx, pushed>>

\* "Restore UI state", first loop: each details of the response whose id
\* is the id of a details of the live form takes that one's open state.
\* resp is the set of groups the response renders open
RestoreOpen(resp) == (resp \ Groups) \cup (formOpen \cap Groups)

\* Mutant of RestoreExpanded: the response is rendered as the server sent it
NoRestore(resp) == resp

\* "Restore UI state": in the response, every group recorded in
\* this.expanded loses its .js-hidden classes and its .filter__more
RestoreExpanded(resp) == resp \ expanded

\* "Preserve the CSS class of the results": the class of the live <ul>, or
\* the one remembered when the results have no <ul>
PreserveResultsClass == IF resultsUl # "none" THEN resultsUl ELSE currentResultsClass

\* Mutant of ReplaceResults: the new <ul> gets the class that was
\* remembered before this render, not the one just read from the live <ul>
ReplaceResultsStaleClass(i, p) ==
    /\ resultsHtml' = Html(i, p)
    /\ currentResultsClass' = PreserveResultsClass
    /\ resultsUl' = (IF currentResultsClass # "none" THEN currentResultsClass ELSE ServerUlClass)

\* this.results.innerHTML = ..., then the new <ul> gets the preserved class
ReplaceResults(i, p) ==
    /\ resultsHtml' = Html(i, p)
    /\ currentResultsClass' = PreserveResultsClass
    /\ resultsUl' = (IF currentResultsClass' # "none" THEN currentResultsClass' ELSE ServerUlClass)

\* this.form.innerHTML = ...: the form shows the fields rendered for p; a
\* filters element inside the form is a new element without listeners,
\* and the debounce timers of the old element's listeners stay armed
ReplaceForm(i, p) ==
    /\ formHtml' = Html(i, p)
    /\ formOpen' = RestoreOpen(RespOpen(p))
    /\ formCollapsed' = RestoreExpanded(RespCollapsed(p))
    /\ formFilter' = FilterOf(p)
    /\ formSort' = SortOf(p)
    /\ debCur' = (IF layout.filtersInForm THEN 0 ELSE debCur)
    /\ debOld' = (IF layout.filtersInForm THEN debOld + debCur ELSE debOld)

\* addListeners() after a render: one more listener on each element, on
\* top of those the element already has when it was not replaced
AddListeners ==
    /\ filtersListeners' = (IF layout.filtersInForm THEN 0 ELSE filtersListeners) + 1
    /\ sortListeners' = (IF layout.sortInResults THEN 0 ELSE sortListeners) + 1

\* The body of call i has been read.  shape names the first expected
\* element the response lacks ("full": none); pg is the pagination
\* element of the rendered results.
TextOk(i, shape, pg) ==
    /\ FacetQuiet /\ DispatchIdle
    /\ calls[i].st = "text"
    /\ LET p == calls[i].params
       IN CASE shape = "noFacets" ->
                 \* getElementById('facets') is null: TypeError, caught
                 /\ Settle(i, "malformed", TRUE)
                 /\ UNCHANGED <<formHtml, formFilter, formSort, debCur, debOld, closeBtnText,
                                resultsHtml, filtersListeners, sortListeners, closeBtnLoading,
                                histEntries, histIdx, pushed, pgVars, uiVars>>
            [] shape = "noCloseBtn" ->
                 \* the form has been replaced; querySelector('.js-close-drawer-mob') is null
                 /\ ReplaceForm(i, p)
                 /\ filtersListeners' = (IF layout.filtersInForm THEN 0 ELSE filtersListeners)
                 /\ Settle(i, "malformed", TRUE)
                 /\ UNCHANGED <<closeBtnText, resultsHtml, sortListeners, closeBtnLoading,
                                histEntries, histIdx, pushed, pgVars, expanded, resultsUl,
                                currentResultsClass>>
            [] shape = "noResults" ->
                 \* form and button label replaced; getElementById('filter-results') is null
                 /\ ReplaceForm(i, p)
                 /\ filtersListeners' = (IF layout.filtersInForm THEN 0 ELSE filtersListeners)
                 /\ closeBtnText' = Html(i, p)
                 \* the class is remembered (2181-2182) before line 2185 throws
                 /\ currentResultsClass' = PreserveResultsClass
                 /\ Settle(i, "malformed", TRUE)
                 /\ UNCHANGED <<resultsHtml, sortListeners, closeBtnLoading,
                                histEntries, histIdx, pushed, pgVars, expanded, resultsUl>>
            [] shape = "full" ->
                 /\ ReplaceForm(i, p)
                 /\ closeBtnText' = Html(i, p)
                 /\ ReplaceResults(i, p)
                 /\ AddListeners
                 \* the results subtree holds the result items and the pagination
                 /\ domItems' = <<[gen |-> i, page |-> 1, n |-> 0]>>
                 /\ domPg' = pg
                 /\ domHref' = 2
                 /\ Reload(pg, 2, TRUE)
                 /\ pgExhausted' = FALSE
                 /\ pgLast' = "reloaded"
                 /\ MaybeUpdateURL(i, p, calls[i].updateUrl)
                 /\ closeBtnLoading' = FALSE
                 /\ pauseInfiniteScroll' = FALSE
                 /\ Settle(i, "rendered", FALSE)
                 /\ UNCHANGED <<domPgOnly, isFetching, pgReq, timersLeaked, pgFetches, pgInfinite,
                                expanded>>
    /\ UNCHANGED <<nCalls, abortCtl, otherVars, dispatch>>

\* Mutant of HandleHistoryChange: a null state is handled like any other
HandleHistoryChangeOnNull(state) ==
    ApplyFilters(state.searchParams, FALSE, "popstate")

\* Mutant of HandleHistoryChange: the stored searchParams are not read
HandleHistoryChangeNoParams(state) ==
    IF ~state.isNull
    THEN ApplyFilters("", FALSE, "popstate")
    ELSE UNCHANGED <<nCalls, pauseInfiniteScroll, resultsLoading, closeBtnLoading, calls, abortCtl>>

\* handleHistoryChange(evt) for a popstate event carrying state
HandleHistoryChange(state) ==
    IF ~state.isNull
    THEN ApplyFilters(IF state.searchParams # "" THEN state.searchParams ELSE "", FALSE, "popstate")
    ELSE UNCHANGED <<nCalls, pauseInfiniteScroll, resultsLoading, closeBtnLoading, calls, abortCtl>>

\* The user navigates the session history by d (-1: back, 1: forward);
\* the browser moves to that entry and fires popstate with its state
Popstate(d) ==
    /\ FacetQuiet /\ DispatchIdle
    /\ histIdx + d \in 1..Len(histEntries)
    /\ histIdx' = histIdx + d
    /\ HandleHistoryChange(histEntries[histIdx + d])
    /\ UNCHANGED <<formHtml, resultsHtml, closeBtnText, formFilter, formSort, otherVars, uiVars,
                   filtersListeners, sortListeners, debCur, debOld, dispatch, histEntries,
                   pushed, warned, pgDomVars, pgObjVars, pgRunVars>>

\* An input event on the filters: the field takes value v, and each
\* listener's debounce(handleFilterChange, 500) (re)arms its timer
InputFilter(v) ==
    /\ FacetQuiet /\ DispatchIdle
    /\ v # formFilter
    /\ formFilter' = v
    /\ debCur' = filtersListeners
    /\ UNCHANGED <<calls, nCalls, abortCtl, formHtml, resultsHtml, closeBtnText, resultsLoading,
                   closeBtnLoading, formSort, otherVars, uiVars, filtersListeners, sortListeners, debOld,
                   dispatch, histEntries, histIdx, pushed, warned, pgVars>>

\* handleFilterChange(evt) for an event that does not come from the
\* desktop sort control: the form is serialised, sort_by is set to the
\* form's value, empty parameters are removed
HandleFilterChange ==
    ApplyFilters(ToQuery(formFilter, formSort), TRUE, "input")

\* A debounce timer fires (old: one of a replaced filters element)
DebounceFire(old) ==
    /\ FacetQuiet /\ DispatchIdle
    /\ IF old THEN debOld > 0 ELSE debCur > 0
    /\ debOld' = (IF old THEN debOld - 1 ELSE debOld)
    /\ debCur' = (IF old THEN debCur ELSE debCur - 1)
    /\ HandleFilterChange
    /\ UNCHANGED <<formHtml, resultsHtml, closeBtnText, formFilter, formSort, otherVars, uiVars,
                   filtersListeners, sortListeners, dispatch, histEntries, histIdx, pushed,
                   warned, pgDomVars, pgObjVars, pgRunVars>>

\* A 'change' event of the desktop sort control (kind "sort", val the
\* selected value) or a click on a filter 'clear' / active-filter link
\* (kind "click", val the link's query): the listeners run one by one
Event(kind, val) ==
    /\ FacetQuiet /\ DispatchIdle
    /\ kind = "sort" => val \in SortVals
    /\ kind = "click" => val \in Params
    /\ LET n == IF kind = "sort" THEN sortListeners ELSE filtersListeners
       IN /\ n > 0
          /\ nCalls < MaxCalls
          /\ dispatch' = [kind |-> kind, val |-> val, left |-> n, made |-> 0]
    /\ UNCHANGED <<calls, nCalls, abortCtl, formHtml, resultsHtml, closeBtnText, resultsLoading,
                   closeBtnLoading, formFilter, formSort, otherVars, uiVars, filtersListeners, sortListeners,
                   debCur, debOld, histEntries, histIdx, pushed, warned, pgVars>>

\* One listener of the event being dispatched runs: handleFilterChange
\* for the sort control (the mobile sort options are synced, sort_by is
\* the selected value), handleFiltersClick / handleActiveFiltersClick for
\* a link
RunListener ==
    /\ FacetQuiet
    /\ dispatch.left > 0
    /\ dispatch' = (IF dispatch.left = 1 THEN NoDispatch
                    ELSE [dispatch EXCEPT !.left = @ - 1, !.made = @ + 1])
    /\ IF dispatch.kind = "sort"
       THEN /\ formSort' = dispatch.val
            /\ ApplyFilters(ToQuery(formFilter, dispatch.val), TRUE, "sort")
       ELSE /\ formSort' = formSort
            /\ ApplyFilters(dispatch.val, TRUE, "click")
    /\ UNCHANGED <<formHtml, resultsHtml, closeBtnText, formFilter, otherVars, uiVars, filtersListeners,
                   sortListeners, debCur, debOld, histEntries, histIdx, pushed, warned,
                   pgDomVars, pgObjVars, pgRunVars>>

\* handleFiltersClick for a click on the 'show more' control of group g:
\* the control is removed, the items of the group lose .js-hidden and the
\* id of the group is recorded in this.expanded
ShowMore(g) ==
    /\ FacetQuiet /\ DispatchIdle
    /\ filtersListeners > 0
    /\ g \in formCollapsed
    /\ formCollapsed' = formCollapsed \ {g}
    /\ expanded' = expanded \cup {g}
    /\ UNCHANGED <<calls, nCalls, abortCtl, formHtml, resultsHtml, closeBtnText, resultsLoading,
                   closeBtnLoading, formFilter, formSort, otherVars, formOpen, resultsUl,
                   currentResultsClass, filtersListeners, sortListeners, debCur, debOld, dispatch,
                   histEntries, histIdx, pushed, warned, pgVars>>

\* The user clicks the summary of group g: its details element toggles
ToggleDetails(g) ==
    /\ FacetQuiet /\ DispatchIdle
    /\ formOpen' = (IF g \in formOpen THEN formOpen \ {g} ELSE formOpen \cup {g})
    /\ UNCHANGED <<facetCoreVarsButUi, otherVars, expanded, formCollapsed, resultsUl,
                   currentResultsClass, pgVars>>

\* handleFilterChange(evt) up to its call of applyFilters: the params of
\* the call are computed from the form
FilterChange ==
    /\ ~fcOut.done
    /\ fcOut' = [done |-> TRUE,
                 entries |-> FilterChangeParams(fcForm, fcEvt),
                 query |-> SpToString(FilterChangeParams(fcForm, fcEvt))]
    /\ UNCHANGED <<restFc, fcForm, fcEvt>>

\* The user edits one field of the form
FormEdited ==
    /\ fcOut.done
    /\ fcOut' = NoFilterChange
    /\ \E j \in 1..Len(fcForm), v \in FormVals : fcForm' = [fcForm EXCEPT ![j].v = v]
    /\ UNCHANGED <<restFc, fcEvt>>

ParamsNext == FilterChange \/ FormEdited

(***************************************************************************)
(* CartDrawer                                                              *)
(***************************************************************************)
RefreshIds == 1..MaxRefresh

\* closest('.shopify-section').id without its 'shopify-section-' prefix
DrawerSection == "cart-drawer"

\* `?sections=${response.join(',')}` for the sections of getSectionsToRender()
SectionsUrl == "?sections=" \o DrawerSection \o "," \o "cart-icon-bubble"

\* What refresh is called with: nothing, or the event object that
\* refreshHandler, registered with addEventListener, receives (truthy, as
\* the documented true is)
RefreshArgs == {"undefined", "event"}
Truthy(arg) == arg # "undefined"

\* What the sections response holds: both elements ("full", the drawer
\* with a <cart-items>), no cart-drawer element in the drawer's section,
\* no .shopify-section element in the cart-icon-bubble section
RenderShapes == {"full", "noDrawer", "noBubble"}

NoCartCall == [kind |-> "none", arg |-> "undefined", itemsAtCall |-> FALSE, st |-> "unused",
               failure |-> "none", events |-> 0, promise |-> "none", shape |-> "none",
               openDrawer |-> FALSE, rendered |-> FALSE]

\* Mutant of UseCartItems: the argument is not looked at
IgnoreSuppress(present, arg) == present

\* "if (cartItems && !dontRefreshCartItems)"
UseCartItems(present, arg) == present /\ ~Truthy(arg)

\* The openDrawer argument refresh passes to renderContents
RefreshOpenDrawer == FALSE

\* The catch of refresh for call c failing at failure: the event detail
\* reads this.errorMsg.textContent, a TypeError when errorMsg is undefined
CatchRefresh(d, c, failure) ==
    IF cartCfg.errorMsg
    THEN [d |-> [d EXCEPT !.errors = @ + 1],
          c |-> [c EXCEPT !.st = "done", !.failure = failure, !.events = 1, !.promise = "fulfilled"]]
    ELSE [d |-> d,
          c |-> [c EXCEPT !.st = "done", !.failure = failure, !.promise = "rejected"]]

\* The forEach of renderContents for call i, and what follows it.  A
\* section without its element makes getElementHTML throw: the promise of
\* renderContents rejects, with what was written before left in place
RenderSections(d, c, i) ==
    CASE c.shape = "noDrawer" ->
           [d |-> d, c |-> [c EXCEPT !.st = "done", !.failure = "render", !.shape = "none"]]
      [] c.shape = "noBubble" ->
           [d |-> [d EXCEPT !.html = i, !.itemsPresent = TRUE],
            c |-> [c EXCEPT !.st = "done", !.failure = "render", !.shape = "none"]]
      [] OTHER ->
           [d |-> [d EXCEPT !.html = i, !.bubble = i, !.itemsPresent = TRUE,
                            !.openTimer = @ \/ (c.openDrawer /\ ~d.open)],
            c |-> [c EXCEPT !.st = "done", !.rendered = TRUE, !.shape = "none"]]

\* The stage renderContents reaches first: an await of loadScript, or the
\* rendering of the sections
AfterStart(d) ==
    IF d.scriptsLoaded THEN "render"
    ELSE IF ~d.itemsTag THEN "load1"
    ELSE IF cartCfg.shippingCalculator /\ ~d.shippingTag THEN "load2"
    ELSE "render"

\* The stage that follows the one whose await has resolved
AfterLoad(d, stage) ==
    CASE stage = "load1" ->
           IF cartCfg.shippingCalculator /\ ~d.shippingTag THEN "load2" ELSE "render"
      [] stage = "load2" -> "load3"
      [] OTHER -> "render"

\* renderContents of call i runs up to its next await or to its end:
\* loadScript appends the script tag at once
EnterStage(d, c, i, stage) ==
    CASE stage = "load1" -> [d |-> [d EXCEPT !.itemsTag = TRUE, !.itemsLoads = @ + 1],
                             c |-> [c EXCEPT !.st = "load1"]]
      [] stage = "load2" -> [d |-> [d EXCEPT !.countryLoads = @ + 1],
                             c |-> [c EXCEPT !.st = "load2"]]
      [] stage = "load3" -> [d |-> [d EXCEPT !.shippingTag = TRUE, !.shippingLoads = @ + 1],
                             c |-> [c EXCEPT !.st = "load3"]]
      [] OTHER -> RenderSections([d EXCEPT !.scriptsLoaded = TRUE], c, i)

\* refresh(arg).  With a <cart-items> and a falsy argument it calls
\* cartItems.refresh(), which returns (itemsOk) or throws; otherwise it
\* starts the fetch of the sections
Refresh(arg, itemsOk) ==
    /\ nRefresh < MaxRefresh
    /\ nRefresh' = nRefresh + 1
    /\ LET i == nRefresh + 1
           c == [NoCartCall EXCEPT !.kind = "refresh", !.arg = arg,
                                   !.itemsAtCall = drawer.itemsPresent, !.promise = "pending"]
           r == IF UseCartItems(drawer.itemsPresent, arg)
                THEN LET d == [drawer EXCEPT !.itemsRefreshes = @ + 1]
                     IN IF itemsOk
                        THEN [d |-> d, c |-> [c EXCEPT !.st = "done", !.promise = "fulfilled"]]
                        ELSE CatchRefresh(d, c, "items")
                ELSE [d |-> [drawer EXCEPT !.fetches = Append(@, [by |-> i, url |-> SectionsUrl])],
                      c |-> [c EXCEPT !.st = "fetch"]]
       IN /\ drawer' = r.d
          /\ cartCalls' = [cartCalls EXCEPT ![i] = r.c]
    /\ UNCHANGED <<restCart, cartCfg>>

\* The fetch of refresh call i settles: a response of any status, or a
\* rejection
CartFetchSettle(i, ok) ==
    /\ cartCalls[i].st = "fetch"
    /\ LET r == IF ok THEN [d |-> drawer, c |-> [cartCalls[i] EXCEPT !.st = "json"]]
                ELSE CatchRefresh(drawer, cartCalls[i], "fetch")
       IN /\ drawer' = r.d
          /\ cartCalls' = [cartCalls EXCEPT ![i] = r.c]
    /\ UNCHANGED <<restCart, cartCfg, nRefresh>>

\* cartResponse.json() of refresh call i fails: the body is not JSON
CartJsonError(i) ==
    /\ cartCalls[i].st = "json"
    /\ LET r == CatchRefresh(drawer, cartCalls[i], "json")
       IN /\ drawer' = r.d
          /\ cartCalls' = [cartCalls EXCEPT ![i] = r.c]
    /\ UNCHANGED <<restCart, cartCfg, nRefresh>>

\* cartResponse.json() of refresh call i succeeds: renderContents is
\* called, not awaited, and refresh returns
CartJsonOk(i, shape) ==
    /\ cartCalls[i].st = "json"
    /\ LET c == [cartCalls[i] EXCEPT !.shape = shape, !.openDrawer = RefreshOpenDrawer,
                                     !.promise = "fulfilled"]
           r == EnterStage(drawer, c, i, AfterStart(drawer))
       IN /\ drawer' = r.d
          /\ cartCalls' = [cartCalls EXCEPT ![i] = r.c]
    /\ UNCHANGED <<restCart, cartCfg, nRefresh>>

\* renderContents(data) called by another component, openDrawer left to
\* its default
RenderContents(shape) ==
    /\ nRefresh < MaxRefresh
    /\ nRefresh' = nRefresh + 1
    /\ LET i == nRefresh + 1
           c == [NoCartCall EXCEPT !.kind = "render", !.shape = shape, !.openDrawer = TRUE]
           r == EnterStage(drawer, c, i, AfterStart(drawer))
       IN /\ drawer' = r.d
          /\ cartCalls' = [cartCalls EXCEPT ![i] = r.c]
    /\ UNCHANGED <<restCart, cartCfg>>

\* The script awaited by renderContents of call i loads, or fails to
CartLoadSettle(i, ok) ==
    /\ cartCalls[i].st \in {"load1", "load2", "load3"}
    /\ LET r == IF ok THEN EnterStage(drawer, cartCalls[i], i, AfterLoad(drawer, cartCalls[i].st))
                ELSE [d |-> drawer,
                      c |-> [cartCalls[i] EXCEPT !.st = "done", !.failure = "render", !.shape = "none"]]
       IN /\ drawer' = r.d
          /\ cartCalls' = [cartCalls EXCEPT ![i] = r.c]
    /\ UNCHANGED <<restCart, cartCfg, nRefresh>>

\* "setTimeout(() => this.open())" fires
OpenTimerFire ==
    /\ drawer.openTimer
    /\ drawer' = [drawer EXCEPT !.openTimer = FALSE, !.open = TRUE]
    /\ UNCHANGED <<restCart, cartCfg, cartCalls, nRefresh>>

(***************************************************************************)
(* SideDrawer, and CartDrawer.open on top of it.  A timer is a record      *)
(* [kind, delay]: "afterOpen" and "afterClose" are the completion timers   *)
(* of open() and close(), set with the transition duration (delay 0        *)
(* here); "cartOpen" is the timer of CartDrawer.open.                      *)
(***************************************************************************)
\* A timer set with setTimeout(f, delay) fires before one set later with a
\* delay at least as long; timers of open()/close() and of
\* CartDrawer.open have unrelated delays
IsTransition(t) == t.kind \in {"afterOpen", "afterClose"}

CanFire(timers, j) ==
    \A k \in 1..(j - 1) :
        ~(IsTransition(timers[k]) = IsTransition(timers[j]) /\ timers[k].delay <= timers[j].delay)

RemoveAt(seq, j) == SubSeq(seq, 1, j - 1) \o SubSeq(seq, j + 1, Len(seq))

\* dispatchEvent of a lifecycle event; open records whether the element
\* has the 'open' attribute when the event is dispatched
Dispatched(events, name, open) == Append(events, [name |-> name, open |-> open])

\* SideDrawer.open(): before-open, the scroll lock, the attribute, the
\* focus trap, the listeners (clickHandler is one function, bound once;
\* keyupHandler is a new function on every call), the completion timer
OpenSteps(timers) ==
    /\ sdEvents' = Dispatched(sdEvents, "before-open", sdOpen)
    /\ bodyFixed' = TRUE
    /\ sdOpen' = TRUE
    /\ trapOwner' = "drawer"
    /\ sdClickOn' = TRUE
    /\ sdKeyups' = sdKeyups + 1
    /\ sdKeyCur' = TRUE
    /\ sdTimers' = Append(timers, [kind |-> "afterOpen", delay |-> 0])

\* open() is called on a side drawer that is closed
SideOpen ==
    /\ sdCalls < MaxToggles
    /\ ~sdOpen
    /\ sdCalls' = sdCalls + 1
    /\ OpenSteps(sdTimers)
    /\ UNCHANGED <<restSide, qaVisible, fdVars>>

\* close() is called on a side drawer that is open
SideClose ==
    /\ sdCalls < MaxToggles
    /\ sdOpen
    /\ sdCalls' = sdCalls + 1
    /\ sdEvents' = Dispatched(sdEvents, "before-close", sdOpen)
    /\ sdOpen' = FALSE
    /\ trapOwner' = "none"
    /\ bodyFixed' = FALSE
    /\ sdClickOn' = FALSE
    /\ sdKeyups' = (IF sdKeyCur THEN sdKeyups - 1 ELSE sdKeyups)
    /\ sdKeyCur' = FALSE
    /\ sdTimers' = Append(sdTimers, [kind |-> "afterClose", delay |-> 0])
    /\ UNCHANGED <<restSide, qaVisible, fdVars>>

\* Mutant of CartOpenDelay: the open steps are never delayed
NoDelay(quickAdd) == 0

\* "quickAddDrawer ? 200 : 0"
CartOpenDelay(quickAdd) == IF quickAdd THEN 200 ELSE 0

\* CartDrawer.open(): a visible quick-add drawer is closed, and the open
\* steps are left to a timer
CartOpen ==
    /\ sdCalls < MaxToggles
    /\ ~sdOpen
    /\ sdCalls' = sdCalls + 1
    /\ qaVisible' = FALSE
    /\ sdTimers' = Append(sdTimers, [kind |-> "cartOpen", delay |-> CartOpenDelay(qaVisible)])
    /\ UNCHANGED <<restSide, sdOpen, sdEvents, sdWired, pageLock, fdVars>>

\* The user opens a quick-add drawer
QuickAddOpens ==
    /\ ~qaVisible /\ ~sdOpen
    /\ qaVisible' = TRUE
    /\ UNCHANGED <<restSide, sdOpen, sdTimers, sdEvents, sdCalls, sdWired, pageLock, fdVars>>

\* Timer j fires: the completion callback dispatches its event, the timer
\* of CartDrawer.open runs the open steps of SideDrawer
SideTimerFire(j) ==
    /\ j \in 1..Len(sdTimers)
    /\ CanFire(sdTimers, j)
    /\ CASE sdTimers[j].kind = "afterOpen" ->
              /\ sdEvents' = Dispatched(sdEvents, "after-open", sdOpen)
              /\ sdTimers' = RemoveAt(sdTimers, j)
              /\ UNCHANGED <<sdOpen, sdWired, pageLock>>
         [] sdTimers[j].kind = "afterClose" ->
              /\ sdEvents' = Dispatched(sdEvents, "after-close", sdOpen)
              /\ sdTimers' = RemoveAt(sdTimers, j)
              /\ UNCHANGED <<sdOpen, sdWired, pageLock>>
         [] OTHER -> OpenSteps(RemoveAt(sdTimers, j))
    /\ UNCHANGED <<restSide, sdCalls, qaVisible, fdVars>>

\* 'on:breakpoint-change' reaches FacetFilters.handleBreakpointChange: at
\* lg the facet drawer is shown in the page; below lg it calls the
\* close() it inherits from SideDrawer, which releases the focus trap and
\* the scroll lock whoever holds them (its own listeners and its lifecycle
\* events are left out)
HandleBreakpointChange ==
    /\ viewportLg' = ~viewportLg
    /\ IF viewportLg'
       THEN /\ fdOpen' = TRUE
            /\ UNCHANGED pageLock
       ELSE /\ fdOpen' = FALSE
            /\ trapOwner' = "none"
            /\ bodyFixed' = FALSE
    /\ UNCHANGED <<restSide, sdOpen, sdTimers, sdEvents, sdCalls, qaVisible, sdWired>>

SideNext ==
    \/ SideOpen
    \/ SideClose
    \/ \E j \in 1..MaxToggles : SideTimerFire(j)

CartOpenNext ==
    \/ CartOpen
    \/ SideClose
    \/ QuickAddOpens
    \/ \E j \in 1..MaxToggles : SideTimerFire(j)

DrawersNext ==
    \/ CartOpen
    \/ SideClose
    \/ HandleBreakpointChange
    \/ \E j \in 1..MaxToggles : SideTimerFire(j)

(***************************************************************************)
(* DetailsDisclosure and CartDrawerDisclosure.  The panel's height style  *)
(* is "none" (no inline style), "zero" or "full" (its scroll height); a   *)
(* change of the height of a rendered panel that has a CSS transition     *)
(* starts (or retargets) a transition, whose end raises 'transitionend'.  *)
(***************************************************************************)
\* "window.getComputedStyle(this.panel).transitionDuration !== '0s'": the
\* click and transitionend listeners exist only then
DdListens(d) == d.hasTransition

\* a height change from h to g of the panel of d
DdRuns(d, h, g) == d.running \/ (d.hasTransition /\ d.open /\ h # g)

\* DetailsDisclosure.open()
DdOpenSteps(d) ==
    [d EXCEPT !.open = TRUE, !.height = "full",
              !.running = d.running \/ d.hasTransition]

\* DetailsDisclosure.close(): the height, is-closing, the timer
DdCloseSteps(d) ==
    [d EXCEPT !.running = DdRuns(d, d.height, "full"), !.height = "full",
              !.closing = TRUE, !.timers = d.timers + 1]

\* open() is called on a closed disclosure: handleToggle on a click of the
\* summary, or any caller; CartDrawerDisclosure.open adds the overlay,
\* the focus trap and its listeners around super.open()
DdOpen ==
    /\ ddOps < MaxDisclosureOps
    /\ ~dd.open
    /\ ddOps' = ddOps + 1
    /\ dd' = IF dd.kind = "cart"
             THEN [DdOpenSteps(dd) EXCEPT !.overlay = TRUE, !.trapped = TRUE, !.wired = TRUE]
             ELSE DdOpenSteps(dd)
    /\ UNCHANGED restDd

\* close() is called on an open disclosure: handleToggle, the Escape key
\* or .js-close of a CartDrawerDisclosure, or any caller
DdClose ==
    /\ ddOps < MaxDisclosureOps
    /\ dd.open
    /\ ddOps' = ddOps + 1
    /\ dd' = IF dd.kind = "cart"
             THEN [DdCloseSteps(dd) EXCEPT !.overlay = FALSE, !.trapped = FALSE, !.wired = FALSE]
             ELSE DdCloseSteps(dd)
    /\ UNCHANGED restDd

\* "setTimeout(() => { this.panel.style.height = '0'; })" fires
DdTimerFire ==
    /\ dd.timers > 0
    /\ dd' = [dd EXCEPT !.timers = dd.timers - 1, !.height = "zero",
                        !.running = DdRuns(dd, dd.height, "zero")]
    /\ UNCHANGED <<restDd, ddOps>>

\* The transition of the panel ends: handleTransitionEnd, when it is a
\* listener
DdTransitionEnd ==
    /\ dd.running
    /\ dd' = IF DdListens(dd)
             THEN [dd EXCEPT !.running = FALSE, !.height = "none",
                             !.closing = FALSE,
                             !.open = IF dd.closing THEN FALSE ELSE dd.open]
             ELSE [dd EXCEPT !.running = FALSE]
    /\ UNCHANGED <<restDd, ddOps>>

\* A click on the summary that no listener prevents toggles the details
DdNativeToggle ==
    /\ ~DdListens(dd)
    /\ dd' = [dd EXCEPT !.open = ~dd.open]
    /\ UNCHANGED <<restDd, ddOps>>

DdNext ==
    \/ DdOpen
    \/ DdClose
    \/ DdTimerFire
    \/ DdTransitionEnd
    \/ DdNativeToggle

(***************************************************************************)
(* Modal.  Every table inside the modal has the same history, so the      *)
(* tables are a count and the number of .scrollable-table elements        *)
(* around each of them.  (pauseAllMedia has no effect on this state.)     *)
(***************************************************************************)
\* "this.querySelectorAll('table').forEach(...)": a new wrapper is inserted
\* around every table found
WrapTables(m) == [m EXCEPT !.wrappers = IF m.tables > 0 THEN m.wrappers + 1 ELSE 0]

\* Modal.open(opener): called by the click listener of a modal-opener
ModalOpen ==
    /\ modalOps < MaxModalOps
    /\ modalOps' = modalOps + 1
    /\ bodyFixed' = TRUE
    /\ trapOwner' = "modal"
    /\ modal' = WrapTables([modal EXCEPT !.open = TRUE, !.keyups = modal.keyups + 1,
                                          !.keyCur = TRUE])
    /\ UNCHANGED restModal

\* Modal.close(): a click on the modal or on .js-close-modal, or Escape
ModalClose ==
    /\ modalOps < MaxModalOps
    /\ modal.open
    /\ modalOps' = modalOps + 1
    /\ bodyFixed' = FALSE
    /\ trapOwner' = "none"
    /\ modal' = [modal EXCEPT !.open = FALSE,
                              !.keyups = IF modal.keyCur THEN modal.keyups - 1 ELSE modal.keyups,
                              !.keyCur = FALSE]
    /\ UNCHANGED restModal

ModalNext ==
    \/ ModalOpen
    \/ ModalClose

(***************************************************************************)
(* MainMenu at the md breakpoint, with two top-level disclosures.  The    *)
(* device either has hover (menus open from mouseenter after the          *)
(* hover-intent delay) or has not (menus open from a click on .js-toggle). *)
(* menu.timers holds the pending "is-open" timers of MainMenu.open, in    *)
(* the order they were set; menu.last is the last call of close().        *)
(***************************************************************************)
Menus == {"a", "b"}

\* "this.nav.querySelector('details.is-open')": the first in document order
ActiveDisclosure(m) ==
    IF m.isOpen["a"] THEN "a" ELSE IF m.isOpen["b"] THEN "b" ELSE "none"

\* toggleOverlay(show)
ToggleOverlay(m, show) == [m EXCEPT !.overlayOpen = show]

\* MainMenu.open(el): the details opens, is-open is left to a timer, the
\* body gets overflow-hidden (the focus trap moves to el)
MenuOpenSteps(m, el) ==
    [m EXCEPT !.open[el] = TRUE, !.timers = Append(m.timers, el), !.overflowHidden = TRUE]

\* close(el, transition): arg is the second argument as passed,
\* "undefined" when it is left out ("transition = true")
MenuCloseSteps(m, el, arg) ==
    LET transition == IF arg = "undefined" THEN TRUE ELSE arg = "true"
        n == [m EXCEPT !.isOpen[el] = FALSE, !.overflowHidden = FALSE,
                       !.last = [el |-> el, arg |-> arg, trapReleased |-> ~transition]]
    IN IF transition
       THEN [n EXCEPT !.closing[el] = TRUE]
       ELSE [n EXCEPT !.closing[el] = FALSE, !.open[el] = FALSE, !.opener = "null"]

\* What opening el does when it is not is-open: another active disclosure
\* is closed, else the overlay is toggled; then MainMenu.open(el)
MenuSwitchTo(m, el) ==
    LET active == ActiveDisclosure(m)
        n == IF active # "none" /\ active # el
             THEN MenuCloseSteps(m, active, "undefined")
             ELSE ToggleOverlay(m, ~m.overlayOpen)
    IN MenuOpenSteps(n, el)

\* The hover-intent timer of el fires: openMenuFromMouseEnter(el)
OpenMenuFromMouseEnter(el) ==
    /\ menuOps < MaxMenuOps
    /\ menu.device = "hover"
    /\ menuOps' = menuOps + 1
    /\ menu' = IF menu.isOpen[el] THEN menu ELSE MenuSwitchTo(menu, el)
    /\ trapOwner' = el
    /\ UNCHANGED restMenu

\* handleNavClick for a click on the .js-toggle of el
HandleNavClick(el) ==
    /\ menuOps < MaxMenuOps
    /\ menuOps' = menuOps + 1
    /\ IF menu.device = "hover"
       THEN /\ menu' = [menu EXCEPT !.isOpen[el] = ~menu.isOpen[el]]
            /\ UNCHANGED trapOwner
       ELSE LET m == [menu EXCEPT !.opener = el]
                n == IF ~m.isOpen[el]
                     THEN MenuSwitchTo([m EXCEPT !.childNavOpen = TRUE], el)
                     ELSE [ToggleOverlay(MenuCloseSteps(m, el, "true"), FALSE)
                              EXCEPT !.childNavOpen = FALSE]
            IN /\ menu' = n
               /\ trapOwner' = (IF ~m.isOpen[el] THEN el ELSE trapOwner)
    /\ UNCHANGED restMenu

\* handleClose: a click on the overlay, the pointer entering it, Escape,
\* or the hover-intent timer of a link without submenu
HandleClose ==
    /\ menuOps < MaxMenuOps
    /\ menuOps' = menuOps + 1
    /\ LET active == ActiveDisclosure(menu)
       IN menu' = IF active = "none" THEN menu
                  ELSE [ToggleOverlay(MenuCloseSteps(menu, active, "true"), FALSE)
                           EXCEPT !.childNavOpen = FALSE]
    /\ UNCHANGED <<restMenu, trapOwner>>

\* The timer of MainMenu.open set first fires: is-closing is removed and
\* is-open added
MenuTimerFire ==
    /\ menu.timers # <<>>
    /\ LET el == Head(menu.timers)
       IN menu' = [menu EXCEPT !.timers = Tail(menu.timers), !.closing[el] = FALSE,
                               !.isOpen[el] = TRUE]
    /\ UNCHANGED <<restMenu, trapOwner, menuOps>>

\* handleTransition for a 'transitionend' raised inside el
MenuTransitionEnd(el) ==
    /\ menu.open[el]
    /\ IF menu.closing[el]
       THEN /\ menu' = [menu EXCEPT !.closing[el] = FALSE, !.open[el] = FALSE, !.opener = "null"]
            /\ trapOwner' = "none"
       ELSE UNCHANGED <<menu, trapOwner>>
    /\ UNCHANGED <<restMenu, menuOps>>

MenuNext ==
    \/ \E el \in Menus : OpenMenuFromMouseEnter(el)
    \/ \E el \in Menus : HandleNavClick(el)
    \/ HandleClose
    \/ MenuTimerFire
    \/ \E el \in Menus : MenuTransitionEnd(el)

(***************************************************************************)
(* CartTerms                                                               *)
(***************************************************************************)
\* Mutant of Blocks: every submit is blocked
BlocksAlways(checked) == TRUE

\* "if (!this.cartTermsCheckbox.checked)"
Blocks(checked) == ~checked

\* The user ticks or unticks the terms checkbox
TermsToggle ==
    /\ ctChecked' = ~ctChecked
    /\ UNCHANGED <<restTerms, ctListening, ctLog>>

\* The cart form is submitted: handleSubmit runs when it is a listener,
\* calling preventDefault and alert for an unchecked box
TermsSubmit ==
    /\ Len(ctLog) < MaxSubmits
    /\ LET blocked == ctListening /\ Blocks(ctChecked)
       IN ctLog' = Append(ctLog, [checked |-> ctChecked, listening |-> ctListening,
                                  prevented |-> blocked, alerted |-> blocked])
    /\ UNCHANGED <<restTerms, ctChecked, ctListening>>

\* disconnectedCallback
TermsDisconnect ==
    /\ ctListening
    /\ ctListening' = FALSE
    /\ UNCHANGED <<restTerms, ctChecked, ctLog>>

(***************************************************************************)
(* The lazy loaders, ProductRecommendations and DeferredMedia              *)
(***************************************************************************)
\* initLazyImages(): the images are observed when the browser has no
\* native lazy loading but has IntersectionObserver, and get their
\* sources at once otherwise
LazyImages(i) ==
    IF ~browser.nativeLazy /\ browser.io
    THEN (IF i = "loaded" THEN "loaded" ELSE "observed")
    ELSE "loaded"

\* The first lines of ProductRecommendations.init: nothing is done
\* without a product id, otherwise the fetch starts
RecsInit(r) ==
    IF ~r.productId THEN [r EXCEPT !.st = "skipped", !.promise = "fulfilled"]
    ELSE [r EXCEPT !.st = "fetch", !.promise = "pending"]

\* The catch of init: console.log(error)
RecsCatch(r, failure) ==
    [r EXCEPT !.st = "done", !.failure = failure, !.logged = @ + 1, !.promise = "fulfilled"]

\* Mutant of RecsShouldRender: whatever element is found is rendered
RenderWheneverFound(shape) == shape # "noElement"

\* "if (el && el.hasChildNodes())"
RecsShouldRender(shape) == shape = "full"

\* The constructor of ProductRecommendations: initLazyScript(this, init)
\* observes the element, or calls init at once without IntersectionObserver
RecsConstruct ==
    /\ recs.st = "new"
    /\ recs' = (IF browser.io THEN [recs EXCEPT !.st = "observing"] ELSE RecsInit(recs))
    /\ UNCHANGED <<restLazy, browser, img, media>>

\* The recommendations element comes near the viewport
RecsIntersect ==
    /\ recs.st = "observing"
    /\ recs' = RecsInit(recs)
    /\ UNCHANGED <<restLazy, browser, img, media>>

\* The fetch of init settles: ok, another status, or a rejection
RecsFetchSettle(kind) ==
    /\ recs.st = "fetch"
    /\ recs' = (IF kind = "ok" THEN [recs EXCEPT !.st = "text"] ELSE RecsCatch(recs, kind))
    /\ UNCHANGED <<restLazy, browser, img, media>>

\* response.text() of init settles.  shape is what the body holds: a
\* product-recommendations element with children ("full"), without
\* children ("empty"), none ("noElement"); "error": the read fails
RecsText(shape) ==
    /\ recs.st = "text"
    /\ IF shape = "error"
       THEN /\ recs' = RecsCatch(recs, "error")
            /\ UNCHANGED img
       ELSE /\ recs' = [recs EXCEPT !.st = "done", !.promise = "fulfilled",
                                    !.failure = (IF shape = "full" THEN "none" ELSE shape),
                                    !.html = (IF RecsShouldRender(shape) THEN "new" ELSE @)]
            /\ img' = LazyImages(img)
    /\ UNCHANGED <<restLazy, browser, media>>

\* "requestAnimationFrame(initLazyImages)" of the page runs
LazyImagesInit ==
    /\ img = "new"
    /\ img' = LazyImages(img)
    /\ UNCHANGED <<restLazy, browser, recs, media>>

\* An observed image comes near the viewport: setImageSources
ImgIntersect ==
    /\ img = "observed"
    /\ img' = "loaded"
    /\ UNCHANGED <<restLazy, browser, recs, media>>

\* The constructor of DeferredMedia: a click listener on the load
\* button, or addObserver(), which returns at once without
\* IntersectionObserver
MediaConstruct ==
    /\ media.st = "new"
    /\ media' = [media EXCEPT !.st = IF media.btn THEN "button"
                                     ELSE IF browser.io THEN "observing" ELSE "inert",
                              !.observed = ~media.btn /\ browser.io]
    /\ UNCHANGED <<restLazy, browser, recs, img>>

\* Mutant of LoadContent: the loaded attribute is not tested
LoadContentAlways(m, trigger) ==
    [m EXCEPT !.calls = m.calls + 1, !.appended = m.appended + 1, !.st = "loaded",
              !.trigger = trigger]

\* loadContent(focus, pause, loadTrigger): "if (this.getAttribute('loaded')
\* !== null) return;", else the template content is appended and the
\* attribute set
LoadContent(m, trigger) ==
    IF m.st = "loaded"
    THEN [m EXCEPT !.calls = m.calls + 1]
    ELSE [m EXCEPT !.calls = m.calls + 1, !.appended = m.appended + 1, !.st = "loaded",
                   !.trigger = trigger]

\* A click on the load button: loadContent() is its listener, before and
\* after the content is loaded
MediaClick ==
    /\ media.btn /\ media.st # "new"
    /\ media.calls < MaxLoads
    /\ media' = LoadContent(media, "click")
    /\ UNCHANGED <<restLazy, browser, recs, img>>

\* The observer callback, with n intersecting entries for the element:
\* loadContent and unobserve for each
MediaLoad ==
    /\ media.observed
    /\ \E n \in 1..2 :
          /\ media.calls + n <= MaxLoads
          /\ LET m1 == LoadContent(media, "observer")
                 m2 == IF n = 2 THEN LoadContent(m1, "observer") ELSE m1
             IN media' = [m2 EXCEPT !.observed = FALSE]
    /\ UNCHANGED <<restLazy, browser, recs, img>>

(***************************************************************************)
(* debounce(fn, wait).  Timers fire at or after their due time, those due   *)
(* earlier first.                                                          *)
(***************************************************************************)
DebArgs == {"a", "b"}

Invocations(log) == {j \in 1..Len(log) : log[j].type = "invoke"}

\* Mutant of ClearTimeout: the pending timer is left alone
NoClear(timers, t) == timers

\* clearTimeout(t): the timer with id t, if still pending, is cancelled
ClearTimeout(timers, t) == {x \in timers : x.id # t}

\* The returned function is invoked with arg
DebInvoke(arg) ==
    /\ Cardinality(Invocations(dbLog)) < MaxInvocations
    /\ LET id == Cardinality(Invocations(dbLog)) + 1
       IN /\ dbTimers' = ClearTimeout(dbTimers, dbT)
                            \cup {[id |-> id, due |-> dbNow + DebWait, arg |-> arg]}
          /\ dbT' = id
    /\ dbLog' = Append(dbLog, [type |-> "invoke", at |-> dbNow, arg |-> arg])
    /\ UNCHANGED <<restDeb, dbNow>>

\* A pending timer that is due fires: fn.apply(this, args)
DebFire ==
    /\ \E x \in dbTimers :
          /\ x.due <= dbNow
          /\ \A y \in dbTimers : x.due <= y.due
          /\ dbTimers' = dbTimers \ {x}
          /\ dbLog' = Append(dbLog, [type |-> "call", at |-> dbNow, arg |-> x.arg])
    /\ UNCHANGED <<restDeb, dbNow, dbT>>

\* Time passes
DebTick ==
    /\ dbNow < MaxTime
    /\ dbNow' = dbNow + 1
    /\ UNCHANGED <<restDeb, dbTimers, dbT, dbLog>>

DebNext ==
    \/ \E arg \in DebArgs : DebInvoke(arg)
    \/ DebFire
    \/ DebTick

WidgetsNext ==
    \/ TermsToggle
    \/ TermsSubmit
    \/ TermsDisconnect
    \/ RecsConstruct
    \/ RecsIntersect
    \/ \E kind \in {"ok", "notok", "error"} : RecsFetchSettle(kind)
    \/ \E shape \in {"full", "empty", "noElement", "error"} : RecsText(shape)
    \/ LazyImagesInit
    \/ ImgIntersect
    \/ MediaConstruct
    \/ MediaLoad
    \/ MediaClick

CartNext ==
    \/ \E arg \in RefreshArgs, itemsOk \in BOOLEAN : Refresh(arg, itemsOk)
    \/ \E i \in RefreshIds, ok \in BOOLEAN : CartFetchSettle(i, ok)
    \/ \E i \in RefreshIds : CartJsonError(i)
    \/ \E i \in RefreshIds, shape \in RenderShapes : CartJsonOk(i, shape)
    \/ \E shape \in RenderShapes : RenderContents(shape)
    \/ \E i \in RefreshIds, ok \in BOOLEAN : CartLoadSettle(i, ok)
    \/ OpenTimerFire

FacetNext ==
    \/ \E i \in CallIds, kind \in {"ok", "notok", "error"} : FetchSettle(i, kind)
    \/ \E i \in CallIds : SettleAborted(i)
    \/ \E i \in CallIds : TextError(i)
    \/ \E i \in CallIds, shape \in {"full", "noFacets", "noCloseBtn", "noResults"} :
          TextOk(i, shape, "more")
    \/ \E d \in {-1, 1} : Popstate(d)
    \/ \E v \in FilterVals : InputFilter(v)
    \/ \E old \in BOOLEAN : DebounceFire(old)
    \/ \E val \in SortVals : Event("sort", val)
    \/ \E val \in ClickHrefs : Event("click", val)
    \/ RunListener

(***************************************************************************)
(* Initial state: the page as the server rendered it, after the            *)
(* constructors and connectedCallbacks have run.  lay is the layout of     *)
(* the markup; inf is data-infinite-scroll and dp the server-rendered      *)
(* pagination element.                                                     *)
(***************************************************************************)
\* The cart drawer after its constructor: closed, nothing loaded.  msg
\* says that this.errorMsg is an element, ship that the element has
\* data-shipping-calculator, items that it holds a <cart-items>, tag that
\* the page already has the script tag of theme.scripts.cartItems
CartInit(msg, ship, items, tag) ==
    /\ cartCfg = [errorMsg |-> msg, shippingCalculator |-> ship]
    /\ drawer = [itemsPresent |-> items, scriptsLoaded |-> FALSE, itemsTag |-> tag,
                 shippingTag |-> FALSE, html |-> 0, bubble |-> 0, open |-> FALSE,
                 openTimer |-> FALSE, errors |-> 0, itemsRefreshes |-> 0, fetches |-> <<>>,
                 itemsLoads |-> 0, countryLoads |-> 0, shippingLoads |-> 0]
    /\ cartCalls = [i \in RefreshIds |-> NoCartCall]
    /\ nRefresh = 0

\* A disclosure after its constructor, its details closed or open
DdInit(kind, tr, open) ==
    /\ dd = [kind |-> kind, hasTransition |-> tr, open |-> open, closing |-> FALSE,
             height |-> "none", timers |-> 0, running |-> FALSE,
             overlay |-> FALSE, trapped |-> FALSE, wired |-> FALSE]
    /\ ddOps = 0

\* A modal after its constructor, with n tables in its content
ModalInit(n) ==
    /\ modal = [open |-> FALSE, tables |-> n, wrappers |-> 0, keyups |-> 0, keyCur |-> FALSE]
    /\ modalOps = 0

\* A main menu after its constructor, no child menu open
MenuInit(device) ==
    /\ menu = [device |-> device,
               isOpen |-> [el \in Menus |-> FALSE],
               open |-> [el \in Menus |-> FALSE],
               closing |-> [el \in Menus |-> FALSE],
               overlayOpen |-> FALSE, childNavOpen |-> FALSE, overflowHidden |-> FALSE,
               opener |-> "null", timers |-> <<>>,
               last |-> [el |-> "none", arg |-> "none", trapReleased |-> FALSE]]
    /\ menuOps = 0

\* debounce(fn, wait) has returned: t is undefined, no timer is set
DebInit ==
    /\ dbNow = 0
    /\ dbTimers = {}
    /\ dbT = 0
    /\ dbLog = <<>>

\* CartTerms after its constructor: listening, the box unchecked
TermsInit ==
    /\ ctChecked = FALSE
    /\ ctListening = TRUE
    /\ ctLog = <<>>

\* The page before its lazy elements are constructed, in browser b;
\* productId says that the recommendations element has data-product-id,
\* btn that the deferred-media element has a .js-load-media button
LazyInit(b, productId, btn) ==
    /\ browser = b
    /\ recs = [st |-> "new", productId |-> productId, html |-> "old", failure |-> "none",
               logged |-> 0, promise |-> "none"]
    /\ img = "new"
    /\ media = [btn |-> btn, st |-> "new", observed |-> FALSE, appended |-> 0, calls |-> 0,
                trigger |-> "none"]

\* A side drawer after its constructor: closed, nothing dispatched
SideInit(qa) ==
    /\ sdOpen = FALSE
    /\ sdTimers = <<>>
    /\ sdEvents = <<>>
    /\ sdCalls = 0
    /\ qaVisible = qa
    /\ sdClickOn = FALSE
    /\ sdKeyups = 0
    /\ sdKeyCur = FALSE
    /\ trapOwner = "none"
    /\ bodyFixed = FALSE
    /\ viewportLg = TRUE
    /\ fdOpen = TRUE

\* No filter change is being handled
FcIdle ==
    /\ fcForm = <<>>
    /\ fcEvt = [sorting |-> TRUE, fromSelect |-> FALSE, options |-> TRUE, selected |-> ""]
    /\ fcOut = NoFilterChange

\* Every component other than FacetFilters, CustomPagination and the
\* component named own is as its constructor left it
IdleBut(own) ==
    /\ IF own = "fc" THEN TRUE ELSE FcIdle
    /\ IF own = "cart" THEN TRUE ELSE CartInit(TRUE, FALSE, TRUE, TRUE)
    /\ IF own = "side" THEN TRUE ELSE SideInit(FALSE)
    /\ IF own = "debounce" THEN TRUE ELSE DebInit
    /\ IF own = "disclosure" THEN TRUE ELSE DdInit("plain", TRUE, FALSE)
    /\ IF own = "modal" THEN TRUE ELSE ModalInit(0)
    /\ IF own = "menu" THEN TRUE ELSE MenuInit("hover")
    /\ IF own = "widgets" THEN TRUE
       ELSE TermsInit /\ LazyInit([io |-> TRUE, nativeLazy |-> TRUE], TRUE, TRUE)

PageInit(sid) ==
    /\ sectionId = sid
    /\ IdleBut("none")

FacetInit(lay) ==
    /\ expanded = {}
    /\ formOpen = RespOpen("")
    /\ formCollapsed = RespCollapsed("")
    /\ currentResultsClass = "none"
    /\ calls = [i \in CallIds |-> NoCall]
    /\ nCalls = 0
    /\ abortCtl = 0
    /\ formHtml = Html(0, "")
    /\ resultsHtml = Html(0, "")
    /\ closeBtnText = Html(0, "")
    /\ resultsLoading = FALSE
    /\ closeBtnLoading = FALSE
    /\ formFilter = ""
    /\ formSort = ""
    /\ layout = lay
    /\ filtersListeners = 1
    /\ sortListeners = 1
    /\ debCur = 0
    /\ debOld = 0
    /\ dispatch = NoDispatch
    /\ histEntries = <<NullState>>
    /\ histIdx = 1
    /\ pushed = 0
    /\ warned = 0

PaginationInit(inf, dp) ==
    /\ pauseInfiniteScroll = FALSE
    /\ pgInfinite = inf
    /\ domPg = dp
    /\ domHref = 2
    /\ domPgOnly = (dp = "more")
    /\ domItems = <<[gen |-> 0, page |-> 1, n |-> 0]>>
    /\ pgResults = domItems
    /\ pagination = (IF dp = "absent" THEN "null" ELSE "live")
    /\ loadMoreButton = (IF dp = "more" THEN "live" ELSE "null")
    /\ btnHref = (IF dp = "more" THEN 2 ELSE 0)
    /\ btnClick = (dp = "more")
    /\ btnLoading = FALSE
    /\ isFetching = FALSE
    /\ controller = "null"
    /\ pgReq = PgIdle
    /\ observer = (IF dp = "more" /\ inf THEN "idle" ELSE "none")
    /\ timerCur = FALSE
    /\ timersLeaked = 0
    /\ pgFetches = 0
    /\ pgExhausted = FALSE
    /\ pgLast = "none"

\* The markup is not part of the sources.  The filter groups handled by
\* handleFiltersClick and re-rendered by applyFilters lie inside #facets,
\* so .facets__filters is taken to be inside the form; the desktop sort
\* control may lie inside or outside #filter-results.
Layouts == [filtersInForm : {TRUE}, sortInResults : BOOLEAN]

\* FacetFilters on a page with an infinite-scroll pagination
InitFacets ==
    /\ \E lay \in Layouts : FacetInit(lay)
    /\ PageInit("main")
    /\ resultsUl = ServerUlClass
    /\ PaginationInit(TRUE, "more")

\* CustomPagination in every configuration
InitPagination ==
    /\ FacetInit([filtersInForm |-> TRUE, sortInResults |-> FALSE])
    /\ PageInit("main")
    /\ resultsUl = ServerUlClass
    /\ \E inf \in BOOLEAN, dp \in {"absent", "more"} : PaginationInit(inf, dp)

\* CustomPagination driven by its own triggers while FacetFilters applies
\* sort changes on the same page
ScrollNext ==
    \/ HandleLoadMoreClick
    \/ TimerTick
    \/ ObserverIn
    \/ ObserverOut
    \/ HandleResultClick
    \/ PgSettleAborted
    \/ \E ok \in BOOLEAN, err \in BOOLEAN : PgFetchSettle(ok, err)
    \/ PgTextError
    \/ \E shape \in {"more", "last", "missing"} : PgTextOk(shape)
    \/ Event("sort", "price")
    \/ RunListener
    \/ \E i \in CallIds, kind \in {"ok", "error"} : FetchSettle(i, kind)
    \/ \E i \in CallIds : SettleAborted(i)
    \/ \E i \in CallIds : TextOk(i, "full", "more")

\* An infinite-scroll pagination inside the results of a FacetFilters page
InitScroll ==
    /\ FacetInit([filtersInForm |-> TRUE, sortInResults |-> TRUE])
    /\ PageInit("main")
    /\ resultsUl = ServerUlClass
    /\ PaginationInit(TRUE, "more")

\* handleFilterChange on every content of the form, for every event
InitParams ==
    /\ FacetInit([filtersInForm |-> TRUE, sortInResults |-> FALSE])
    /\ sectionId = "main"
    /\ fcForm \in FormContents
    /\ fcEvt \in FilterChangeEvents
    /\ fcOut = NoFilterChange
    /\ IdleBut("fc")
    /\ resultsUl = ServerUlClass
    /\ PaginationInit(FALSE, "absent")

SpecParams == InitParams /\ [][ParamsNext]_vars

\* The closed cart drawer of a page that has a shipping calculator and
\* loads the cart scripts on demand: with or without an errorMsg element,
\* with or without a <cart-items>
InitCart ==
    /\ FacetInit([filtersInForm |-> TRUE, sortInResults |-> FALSE])
    /\ sectionId = "main"
    /\ IdleBut("cart")
    /\ \E msg \in BOOLEAN, items \in BOOLEAN : CartInit(msg, TRUE, items, FALSE)
    /\ resultsUl = ServerUlClass
    /\ PaginationInit(FALSE, "absent")

SpecCart == InitCart /\ [][CartNext]_vars

\* The cart terms, the recommendations, the lazy images and a deferred
\* media element of one page, in any browser
InitWidgets ==
    /\ FacetInit([filtersInForm |-> TRUE, sortInResults |-> FALSE])
    /\ sectionId = "main"
    /\ IdleBut("widgets")
    /\ TermsInit
    /\ \E io \in BOOLEAN, nat \in BOOLEAN, productId \in BOOLEAN, btn \in BOOLEAN :
          LazyInit([io |-> io, nativeLazy |-> nat], productId, btn)
    /\ resultsUl = ServerUlClass
    /\ PaginationInit(FALSE, "absent")

SpecWidgets == InitWidgets /\ [][WidgetsNext]_vars

\* A debounced function that has not been invoked yet
InitDeb ==
    /\ FacetInit([filtersInForm |-> TRUE, sortInResults |-> FALSE])
    /\ sectionId = "main"
    /\ IdleBut("debounce")
    /\ DebInit
    /\ resultsUl = ServerUlClass
    /\ PaginationInit(FALSE, "absent")

SpecDeb == InitDeb /\ [][DebNext]_vars

\* A closed side drawer
InitSide ==
    /\ FacetInit([filtersInForm |-> TRUE, sortInResults |-> FALSE])
    /\ sectionId = "main"
    /\ IdleBut("side")
    /\ SideInit(FALSE)
    /\ resultsUl = ServerUlClass
    /\ PaginationInit(FALSE, "absent")

SpecSide == InitSide /\ [][SideNext]_vars

\* A closed cart drawer, with or without a quick-add drawer showing
InitCartOpen ==
    /\ FacetInit([filtersInForm |-> TRUE, sortInResults |-> FALSE])
    /\ sectionId = "main"
    /\ IdleBut("side")
    /\ \E qa \in BOOLEAN : SideInit(qa)
    /\ resultsUl = ServerUlClass
    /\ PaginationInit(FALSE, "absent")

\* Every timer that has been set fires
SpecCartOpen ==
    InitCartOpen /\ [][CartOpenNext]_vars /\ WF_vars(\E j \in 1..MaxToggles : SideTimerFire(j))

\* A closed cart drawer on a collection page with a facet drawer, on a
\* viewport that may cross the lg breakpoint
SpecDrawers == InitSide /\ [][DrawersNext]_vars

\* A details-disclosure or a cart-drawer-disclosure, its panel with or
\* without a CSS transition, its details closed or open
InitDisclosure ==
    /\ FacetInit([filtersInForm |-> TRUE, sortInResults |-> FALSE])
    /\ sectionId = "main"
    /\ IdleBut("disclosure")
    /\ \E kind \in {"plain", "cart"}, tr \in BOOLEAN, open \in BOOLEAN : DdInit(kind, tr, open)
    /\ resultsUl = ServerUlClass
    /\ PaginationInit(FALSE, "absent")

\* Timers fire and transitions end
SpecDisclosure ==
    InitDisclosure /\ [][DdNext]_vars /\ WF_vars(DdTimerFire) /\ WF_vars(DdTransitionEnd)

\* A closed modal with some tables in it
InitModal ==
    /\ FacetInit([filtersInForm |-> TRUE, sortInResults |-> FALSE])
    /\ sectionId = "main"
    /\ IdleBut("modal")
    /\ \E n \in 0..MaxTables : ModalInit(n)
    /\ resultsUl = ServerUlClass
    /\ PaginationInit(FALSE, "absent")

SpecModal == InitModal /\ [][ModalNext]_vars

\* A main menu with no child menu open, on a device with or without hover
InitMenu ==
    /\ FacetInit([filtersInForm |-> TRUE, sortInResults |-> FALSE])
    /\ sectionId = "main"
    /\ IdleBut("menu")
    /\ \E device \in {"hover", "touch"} : MenuInit(device)
    /\ resultsUl = ServerUlClass
    /\ PaginationInit(FALSE, "absent")

SpecMenu == InitMenu /\ [][MenuNext]_vars

SpecScroll == InitScroll /\ [][ScrollNext]_vars

\* FacetFilters on a page whose results <ul> has any class, or is missing
InitExpand ==
    /\ FacetInit([filtersInForm |-> TRUE, sortInResults |-> TRUE])
    /\ \E sid \in {"", "main"} : PageInit(sid)
    /\ resultsUl \in {"none", "grid", "list"}
    /\ PaginationInit(TRUE, "more")

\* Filter groups being expanded between sort changes and link clicks
ExpandNext ==
    \/ \E g \in Groups : ShowMore(g)
    \/ ToggleDetails("color")
    \/ \E val \in SortVals : Event("sort", val)
    \/ \E val \in Params : Event("click", val)
    \/ RunListener
    \/ \E i \in CallIds :
        \/ \E kind \in {"ok", "notok", "error"} : FetchSettle(i, kind)
        \/ SettleAborted(i)
        \/ TextError(i)
        \/ \E shape \in {"full", "noFacets", "noCloseBtn", "noResults"} : TextOk(i, shape, "more")

SpecExpand == InitExpand /\ [][ExpandNext]_vars

SpecFacets == InitFacets /\ [][FacetNext]_vars

SpecPagination == InitPagination /\ [][PgNext]_vars

(***************************************************************************)
(* Claims                                                                  *)
(***************************************************************************)
InFlight(i) == calls[i].st \in {"fetch", "text"}

Failed(i) == calls[i].st \in {"netError", "notOk", "malformed"}

\* C1: whenever the content of the facets form or of the results container
\* is replaced, the call whose response replaces it is the last-started
\* applyFilters call; the response of an earlier call never replaces it.
C1_OnlyLastCallRenders ==
    [][/\ formHtml' # formHtml => formHtml'.by = nCalls
       /\ resultsHtml' # resultsHtml => resultsHtml'.by = nCalls]_vars

\* C1 witness: the first call was superseded and has settled, and the
\* response of the second call has replaced form and results.
C1_Witness ==
    /\ nCalls = 2
    /\ calls[1].st = "abortedDone"
    /\ calls[2].st = "rendered"
    /\ formHtml.by = 2 /\ resultsHtml.by = 2

\* C2: in every reachable state at most one facets request (fetch or body
\* read) has a signal that is not aborted, and it is the one of the call
\* that made the current AbortController.
C2_CancelBeforeStart ==
    /\ Cardinality({i \in CallIds : InFlight(i)}) <= 1
    /\ \A i \in CallIds : InFlight(i) => i = abortCtl

\* C2 witness: a new call has just aborted the request of the previous
\* one and has its own fetch in flight.
C2_Witness ==
    /\ nCalls = 2
    /\ calls[1].st = "aborted"
    /\ calls[1].src # "popstate"
    /\ calls[2].st = "fetch"

\* C3 (as stated): once a response without data-is-more-results has been
\* handled, no step issues a fetch or changes the result list.
C3_ExhaustionIsTerminal ==
    [][pgExhausted => (pgFetches' = pgFetches /\ domItems' = domItems)]_vars

\* C4: once a response without data-is-more-results has been handled, the
\* pagination element and the .js-when-paginated-only elements are out of
\* the DOM, no interval is running and no observer is connected.
C4_ExhaustionRemovesTriggers ==
    pgExhausted =>
        /\ domPg = "absent"
        /\ ~domPgOnly
        /\ ~timerCur /\ timersLeaked = 0
        /\ observer = "none"

\* C4 witness: an infinite-scroll pagination whose second fetched page was
\* the last one, right after that response has been handled.
C4_Witness ==
    /\ pgInfinite
    /\ pgLast = "exhausted"
    /\ Len(domItems) = 3
    /\ pgExhausted

\* C5: a call made by handleHistoryChange has updateUrl = false, and every
\* history.pushState is made by the render of a call with updateUrl = true
\* that was not made by handleHistoryChange.
C5_PopstateNeverPushes ==
    [][/\ \A i \in CallIds : calls'[i].src = "popstate" /\ InFlight(i)' => ~calls'[i].updateUrl
       /\ pushed' # pushed =>
            \E i \in CallIds : /\ calls[i].st = "text" /\ calls'[i].st = "rendered"
                               /\ calls[i].updateUrl /\ calls[i].src # "popstate"
       /\ \A i \in CallIds : (calls[i].src = "popstate" /\ calls'[i] # calls[i]) =>
            (pushed' = pushed /\ histEntries' = histEntries)]_vars

\* C5 witness: the response of a call made by handleHistoryChange has been
\* rendered, and the only pushState so far is the one of the earlier call.
C5_Witness ==
    /\ calls[1].st = "rendered" /\ calls[1].src # "popstate"
    /\ calls[2].st = "rendered" /\ calls[2].src = "popstate"
    /\ resultsHtml.by = 2
    /\ pushed = 1

\* C6: a navigation that arrives at an entry pushed by updateURL(p) starts
\* an applyFilters call with exactly p and updateUrl = false, and when the
\* response of such a call is rendered, form and results show p and no
\* pushState is made: the history is as it was.
C6_HistoryRoundTrip ==
    [][/\ (histIdx' # histIdx /\ pushed' = pushed /\ ~histEntries[histIdx'].isNull) =>
            /\ nCalls' = nCalls + 1
            /\ calls'[nCalls'].params = histEntries[histIdx'].searchParams
            /\ ~calls'[nCalls'].updateUrl
       /\ \A i \in CallIds :
            (calls[i].src = "popstate" /\ calls[i].st = "text" /\ calls'[i].st = "rendered") =>
                /\ formHtml' = Html(i, calls[i].params)
                /\ resultsHtml' = Html(i, calls[i].params)
                /\ pushed' = pushed /\ histEntries' = histEntries /\ histIdx' = histIdx]_vars

\* C6 witness: a non-empty p was pushed, the user went back and forward
\* again, and the call replaying p has been rendered; one pushState only.
C6_Witness ==
    /\ calls[2].src = "popstate" /\ calls[2].st = "rendered"
    /\ formHtml.by = 2 /\ formHtml.p # ""
    /\ histEntries[histIdx] = StateOf(formHtml.p)
    /\ pushed = 1

\* C7 (as stated): an event makes exactly one applyFilters call: once a
\* call has been made for the event being dispatched, no listener of that
\* event is left to run.
C7_OneCallPerEvent ==
    dispatch.left > 0 => dispatch.made = 0

\* C8 (as stated): a step in which an applyFilters call fails leaves the
\* facets form and the results container as they were.
C8_FailureLeavesDomUntouched ==
    [][\A i \in CallIds : (InFlight(i) /\ Failed(i)') =>
            (formHtml' = formHtml /\ resultsHtml' = resultsHtml)]_vars

\* C9 (as stated): the settling of an aborted call logs no warning and
\* changes neither the DOM nor the history.
C9_AbortIsSilent ==
    [][\A i \in CallIds : (calls[i].st = "aborted" /\ calls'[i].st = "abortedDone") =>
            /\ warned' = warned
            /\ formHtml' = formHtml /\ resultsHtml' = resultsHtml
            /\ histEntries' = histEntries /\ histIdx' = histIdx]_vars

\* C10 (as stated): a call that ends on a network failure (the fetch or
\* the body read rejects, or the status is not 2xx) logs exactly one
\* warning and leaves the results without the loading state.
C10_NetworkFailureReportedOnce ==
    [][\A i \in CallIds : (InFlight(i) /\ calls'[i].st \in {"netError", "notOk"}) =>
            (warned' = warned + 1 /\ ~resultsLoading')]_vars

\* C11: the set of recorded expanded groups never shrinks, and whenever the
\* form is re-rendered no recorded group is collapsed in the new form.
C11_ExpandedSurvivesRender ==
    [][/\ expanded \subseteq expanded'
       /\ formHtml' # formHtml => expanded \cap formCollapsed' = {}]_vars

\* C11 witness: "size" was expanded by the user, two responses in which
\* the server sent it collapsed have been rendered since, and it is still
\* expanded while the untouched "color" group is collapsed.
C11_Witness ==
    /\ "size" \in expanded
    /\ formHtml.by = 2 /\ calls[1].st = "rendered" /\ calls[2].st = "rendered"
    /\ "size" \in RespCollapsed(formHtml.p)
    /\ formCollapsed = {"color"}

\* C12: a loadMore fetch is started only when no loadMore fetch is in
\* flight, isFetching is false and the pause flag is 'false'; and a
\* loadMore() call that finds the guard false changes no state of the
\* instance or of the DOM.
C12_OneFetchAndPauseIsNoOp ==
    [][/\ pgFetches' # pgFetches =>
            (pgReq.phase = "idle" /\ ~isFetching /\ ~pauseInfiniteScroll)
       /\ pgReq.phase # "idle" => isFetching
       /\ (pgLast' = "noop" /\ pgLast # "noop") =>
            UNCHANGED <<isFetching, controller, pgReq, btnLoading, pgFetches, pgDomVars,
                        pagination, loadMoreButton, btnHref, btnClick>>]_vars

\* C12 witness: a fetch is in flight, a sort change has set the pause flag,
\* and a trigger has called loadMore() to no effect.
C12_Witness ==
    /\ pgReq.phase = "fetch" /\ isFetching
    /\ pauseInfiniteScroll
    /\ pgLast = "noop"
    /\ pgFetches = 1

\* C13 (as stated): whenever a pagination fetch is in flight, a click on a
\* link inside a result aborts it.
C13_ResultClickAborts ==
    [][(pgLast' = "resultclick" /\ pgLast # "resultclick" /\ pgReq.phase \in {"fetch", "text"}) =>
            pgReq'.phase = "aborted"]_vars

\* C14: a loadMore response that is appended leaves every result that was
\* in the list where it was and adds the fetched page right after the
\* last of them: the new list is the old one followed by the page.
C14_LoadMoreIsAdditive ==
    [][(pgReq.phase = "text" /\ pgReq'.phase = "idle" /\ domItems' # domItems) =>
            /\ Len(domItems') = Len(domItems) + 1
            /\ SubSeq(domItems', 1, Len(domItems)) = domItems
            /\ domItems'[Len(domItems')].page = pgReq.page]_vars

\* C14 witness: two pages have been appended, in order, after the
\* server-rendered result.
C14_Witness ==
    /\ Len(domItems) = 3
    /\ domItems[1].page = 1 /\ domItems[2].page = 2 /\ domItems[3].page = 3
    /\ pgFetches = 2 /\ pgReq.phase = "idle"

\* C15 (as stated): once a response without a .js-pagination element has
\* been handled, the live pagination control is out of the DOM, no interval
\* is running and no observer is connected.
C15_MissingPaginationEndsPaging ==
    pgLast = "nopagination" => (domPg = "absent" /\ ~timerCur /\ observer = "none")

\* C16: the entries handleFilterChange passes to applyFilters contain no
\* entry with an empty value, whatever the form holds and whatever the
\* event is.
C16_NoEmptyParams ==
    fcOut.done => \A j \in 1..Len(fcOut.entries) : fcOut.entries[j].v # ""

\* C16 witness: the form held an empty filter value and a non-empty one
\* under another key; the call gets the non-empty one only.
C16_Witness ==
    /\ fcOut.done
    /\ \E j \in 1..Len(fcForm) : fcForm[j].v = ""
    /\ fcOut.entries # <<>>
    /\ fcOut.query = "filter.v.option.color=Red"

\* C17: a call of applyFilters(p) fetches Path?p, with &section_id=<id>
\* appended when the form declares a section id; the render of a call with
\* updateUrl pushes exactly one entry, with state { searchParams: p } and
\* URL Path?p (Path alone when p is empty), in the step that renders the
\* response; a call that fails, is malformed or is aborted pushes nothing.
C17_FetchUrlAndPushedUrl ==
    [][/\ \A i \in CallIds : (calls[i].st # "fetch" /\ calls'[i].st = "fetch") =>
            calls'[i].fetchUrl =
                "/collections/x?" \o calls'[i].params
                    \o (IF sectionId = "" THEN "" ELSE "&section_id=" \o sectionId)
       /\ \A i \in CallIds : (calls[i].st = "text" /\ calls'[i].st = "rendered" /\ calls[i].updateUrl) =>
            /\ resultsHtml' = Html(i, calls[i].params)
            /\ pushed' = pushed + 1
            /\ histIdx' = histIdx + 1
            /\ histEntries' = Append(SubSeq(histEntries, 1, histIdx),
                                     [isNull |-> FALSE, searchParams |-> calls[i].params,
                                      url |-> IF calls[i].params = "" THEN "/collections/x"
                                              ELSE "/collections/x?" \o calls[i].params])
       /\ \A i \in CallIds :
            (calls'[i] # calls[i]
               /\ calls'[i].st \in {"notOk", "netError", "malformed", "aborted", "abortedDone"}) =>
            (pushed' = pushed /\ histEntries' = histEntries /\ histIdx' = histIdx)]_vars

\* C17 witness: under section id "main" a sort was fetched with section_id
\* and pushed without it, then the clear link pushed the bare path.
C17_Witness ==
    /\ sectionId = "main"
    /\ pushed = 2
    /\ Len(histEntries) = 3
    /\ histEntries[2] = [isNull |-> FALSE, searchParams |-> "sort_by=price",
                         url |-> "/collections/x?sort_by=price"]
    /\ histEntries[3] = [isNull |-> FALSE, searchParams |-> "", url |-> "/collections/x"]
    /\ calls[2].st = "rendered"

\* C18: when the form and the results show the render of the previous
\* call, made with params p, and the next call of applyFilters(p) is
\* rendered in full, the content of the form, of the close button and of
\* the results, the open and the expanded groups and the class of the
\* results list are what they were.
C18_RenderIsIdempotent ==
    [][\A i \in CallIds :
          (/\ calls[i].st = "text" /\ calls'[i].st = "rendered"
           /\ i > 1 /\ formHtml.by = i - 1 /\ resultsHtml.by = i - 1 /\ closeBtnText.by = i - 1
           /\ formHtml.p = calls[i].params) =>
          /\ formHtml'.p = formHtml.p /\ formHtml'.by = i
          /\ resultsHtml'.p = resultsHtml.p /\ resultsHtml'.by = i
          /\ closeBtnText'.p = closeBtnText.p
          /\ formFilter' = formFilter /\ formSort' = formSort
          /\ formOpen' = formOpen
          /\ formCollapsed' = formCollapsed
          /\ resultsUl' = resultsUl]_vars

\* C18 witness: two calls with the same params were rendered one after
\* the other on a page whose list had its own class, with a group
\* expanded and a details element toggled by the user.
C18_Witness ==
    /\ calls[1].st = "rendered" /\ calls[2].st = "rendered"
    /\ formHtml.by = 2 /\ resultsHtml.by = 2
    /\ pushed = 2
    /\ histEntries[2].searchParams = "sort_by=price"
    /\ histEntries[3].searchParams = "sort_by=price"
    /\ resultsUl = "list"
    /\ expanded = {"size"}
    /\ formOpen = {"color"}

\* C19: a refresh call that failed (the fetch rejected, the body was not
\* JSON, or the rendering of the fetched sections failed) has dispatched
\* one on:cart:error event and its promise has not rejected.
C19_RefreshFailureDispatchesError ==
    \A i \in RefreshIds :
        (/\ cartCalls[i].kind = "refresh" /\ cartCalls[i].st = "done"
         /\ cartCalls[i].failure \in {"fetch", "json", "render"}) =>
        (cartCalls[i].events = 1 /\ cartCalls[i].promise = "fulfilled")

\* C20: a refresh call made with a <cart-items> in the drawer and a falsy
\* argument calls cartItems.refresh() and fetches nothing; any other
\* refresh call makes exactly one fetch, of the drawer's section and
\* cart-icon-bubble, renders with openDrawer = false, and no step of a
\* refresh call opens the drawer or arms the timer that opens it.
C20_RefreshPolicy ==
    [][\A i \in RefreshIds : cartCalls'[i].kind = "refresh" =>
          LET c == cartCalls'[i]
              mine == SelectSeq(drawer'.fetches, LAMBDA f : f.by = i)
              fresh == cartCalls[i].kind = "none"
          IN /\ IF c.itemsAtCall /\ c.arg = "undefined"
                THEN /\ mine = <<>>
                     /\ c.st = "done" /\ ~c.rendered /\ c.failure \in {"none", "items"}
                     /\ fresh => drawer'.itemsRefreshes = drawer.itemsRefreshes + 1
                ELSE /\ mine = <<[by |-> i, url |-> "?sections=cart-drawer,cart-icon-bubble"]>>
                     /\ fresh => drawer'.itemsRefreshes = drawer.itemsRefreshes
                     /\ ~c.openDrawer
             /\ cartCalls'[i] # cartCalls[i] =>
                  (drawer'.open = drawer.open /\ drawer'.openTimer = drawer.openTimer)]_vars

\* C20 witness: with a <cart-items> in a closed drawer, refresh() went to
\* cartItems.refresh() and the refresh made by the event listener fetched
\* and rendered the sections; the drawer is still closed.
C20_Witness ==
    /\ cartCalls[1].kind = "refresh" /\ cartCalls[1].arg = "undefined" /\ cartCalls[1].itemsAtCall
    /\ cartCalls[1].st = "done" /\ cartCalls[1].failure = "none"
    /\ cartCalls[2].kind = "refresh" /\ cartCalls[2].arg = "event" /\ cartCalls[2].itemsAtCall
    /\ cartCalls[2].rendered
    /\ drawer.html = 2 /\ drawer.itemsRefreshes = 1 /\ Len(drawer.fetches) = 1
    /\ ~drawer.open /\ ~drawer.openTimer

\* C21: on one cart drawer each deferred script (cart items,
\* country/province selector, shipping calculator) is loaded at most once,
\* whatever renderContents calls are made and however they overlap.
C21_ScriptsLoadedOnce ==
    /\ drawer.itemsLoads <= 1
    /\ drawer.countryLoads <= 1
    /\ drawer.shippingLoads <= 1

\* C22: the lifecycle events of a side drawer are dispatched in the order
\* before-open, after-open, before-close, after-close, starting with
\* before-open, and after-open is dispatched only while the drawer has its
\* 'open' attribute.
C22_TransitionsGated ==
    \A j \in 1..Len(sdEvents) :
        /\ sdEvents[j].name = "after-open" => sdEvents[j].open
        /\ sdEvents[j].name =
              (IF j = 1 THEN "before-open"
               ELSE CASE sdEvents[j - 1].name = "before-open" -> "after-open"
                      [] sdEvents[j - 1].name = "after-open" -> "before-close"
                      [] sdEvents[j - 1].name = "before-close" -> "after-close"
                      [] OTHER -> "before-open")

C24_SubmitBlockedIffUnchecked ==
    \A j \in 1..Len(ctLog) :
        /\ ctLog[j].prevented = (ctLog[j].listening /\ ~ctLog[j].checked)
        /\ ctLog[j].alerted = ctLog[j].prevented

\* C24 witness: a submit with the box unchecked was prevented and a later
\* one with the box checked was not.
C24_Witness ==
    /\ Len(ctLog) = 2
    /\ ctLog[1] = [checked |-> FALSE, listening |-> TRUE, prevented |-> TRUE, alerted |-> TRUE]
    /\ ctLog[2] = [checked |-> TRUE, listening |-> TRUE, prevented |-> FALSE, alerted |-> FALSE]

\* C25: the promise of init never rejects, and when the fetch failed, the
\* status was not ok, the body could not be read or held no non-empty
\* product-recommendations element, the content of the element is what
\* it was.
C25_RecsFailSilently ==
    /\ recs.promise # "rejected"
    /\ recs.failure # "none" => recs.html = "old"
    /\ recs.st = "skipped" => recs.html = "old"

\* C25 witness: init has ended on a response whose
\* product-recommendations element is empty.
C25_Witness ==
    /\ recs.st = "done"
    /\ recs.failure = "empty"
    /\ recs.promise = "fulfilled"

\* C26: in a browser without IntersectionObserver the callback of
\* initLazyScript has been called once the element is constructed, the
\* lazy images have their sources once initLazyImages has run, and a
\* deferred-media element without load button has loaded its content
\* once constructed.
C26_EagerWithoutObserver ==
    ~browser.io =>
        /\ recs.st \notin {"observing"}
        /\ img \in {"new", "loaded"}
        /\ (media.st # "new" /\ ~media.btn) => media.st = "loaded"

\* C27: every call of fn is preceded by an invocation of the returned
\* function, carries the arguments of the most recent one, is made at
\* least the wait after it, and is the only call made since it.
C27_DebounceRunsLastOnce ==
    \A j \in 1..Len(dbLog) :
        dbLog[j].type = "call" =>
            /\ j > 1
            /\ dbLog[j - 1].type = "invoke"
            /\ dbLog[j - 1].arg = dbLog[j].arg
            /\ dbLog[j].at >= dbLog[j - 1].at + DebWait

\* C27 witness: three invocations, each less than the wait after the one
\* before and with other arguments, were followed by one call of fn with
\* the arguments of the third.
C27_Witness ==
    /\ Len(dbLog) = 4
    /\ \A j \in 1..3 : dbLog[j].type = "invoke"
    /\ dbLog[2].at - dbLog[1].at < DebWait /\ dbLog[3].at - dbLog[2].at < DebWait
    /\ dbLog[2].arg # dbLog[3].arg
    /\ dbLog[4].type = "call" /\ dbLog[4].arg = dbLog[3].arg
    /\ dbTimers = {}
    /\ dbNow = MaxTime

\* C28: a loadMore request started on a result list that applyFilters has
\* since replaced ends without touching the new list or its pagination
\* control: it appends nothing and leaves the load-more link as rendered.
C28_StaleLoadMoreDiscarded ==
    [][(/\ pgReq.phase \in {"fetch", "text", "aborted"}
        /\ pgReq.gen # domItems[1].gen
        /\ pgReq' # pgReq) =>
            (domItems' = domItems /\ domHref' = domHref /\ domPg' = domPg)]_vars

\* C29: when the response of a loadMore fetch arrives while the pause flag is
\* 'true', the response is discarded: the rendered results and the
\* pagination control stay as they are, the running auto-load interval is
\* cleared, the button leaves its loading state, isFetching is false again
\* and the request is over.
C29_PausedResponseDiscarded ==
    [][(/\ pgReq.phase = "fetch"
        /\ pauseInfiniteScroll
        /\ pgReq'.phase \notin {"fetch", "aborted"}) =>
            (/\ domItems' = domItems /\ domHref' = domHref /\ domPg' = domPg
             /\ ~timerCur' /\ timersLeaked' = 0
             /\ ~btnLoading'
             /\ ~isFetching'
             /\ pgReq' = PgIdle)]_vars

\* a response was discarded because the pause flag was set, under a running
\* applyFilters cycle
C29_Witness ==
    /\ pgLast = "interrupted"
    /\ pauseInfiniteScroll
    /\ ~isFetching
    /\ \E i \in CallIds : calls[i].st \in {"fetch", "text"}

\* C30: while the applyFilters call started last is in flight (its fetch or
\* the read of its body is pending), the results container is in its
\* is-loading state.
C30_LoadingWhileLatestInFlight ==
    \A i \in CallIds :
        (i = abortCtl /\ calls[i].st \in {"fetch", "text"}) => resultsLoading

\* C31: when no applyFilters call is pending any more, whatever the outcome
\* of the calls made, infinite scroll is not paused and the mobile close
\* button is not in its loading state.
C31_SettledCallResetsStart ==
    (/\ nCalls > 0
     /\ \A i \in CallIds : calls[i].st \notin {"fetch", "text", "aborted"}) =>
        (~pauseInfiniteScroll /\ ~closeBtnLoading)

\* C32: whenever the drawer is closed, no click or keyup listener
\* registered by open() is attached to the drawer or the overlay.
C32_NoListenerAfterClose ==
    ~sdOpen => (~sdClickOn /\ sdKeyups = 0)

\* C33: while the cart drawer is open, it holds the focus trap and the page
\* scroll lock is in place.
C33_OpenDrawerKeepsLock ==
    sdOpen => (trapOwner = "drawer" /\ bodyFixed)

\* C36: a close() call sets is-closing and leaves the details open, and a
\* details element that is closing is eventually closed.
C36_CloseEndsClosed ==
    /\ [][ddOps' = ddOps + 1 /\ dd.open => dd'.closing /\ dd'.open]_vars
    /\ (dd.closing ~> ~dd.open)

\* C37: once a modal with tables has been opened, every table inside it is
\* inside exactly one .scrollable-table element, however often the modal
\* has been opened and closed.
C37_TablesWrappedOnce ==
    (modal.tables > 0 /\ modalOps > 0) => modal.wrappers = 1

\* C38: at most one top-level disclosure of the navigation carries is-open,
\* and the overlay is shown whenever one does.
C38_OneMenuOpen ==
    /\ Cardinality({el \in Menus : menu.isOpen[el]}) <= 1
    /\ (\E el \in Menus : menu.isOpen[el]) => menu.overlayOpen

\* C39: a call of close(el) without a second argument closes at once:
\* afterwards el is not is-closing, its details is closed and the focus
\* trap has been released.
C39_CloseDefaultsToImmediate ==
    [][(menu'.last # menu.last /\ menu'.last.arg = "undefined") =>
          (/\ ~menu'.closing[menu'.last.el]
           /\ ~menu'.open[menu'.last.el]
           /\ menu'.last.trapReleased)]_vars

\* C40: the template content of a deferred-media element is appended at
\* most once; after any loadContent call it has been appended exactly once
\* and the loaded attribute is set.
C40_LoadContentIdempotent ==
    /\ media.appended <= 1
    /\ media.calls > 0 => (media.appended = 1 /\ media.st = "loaded")

\* the load button was clicked again after the content was loaded
C40_Witness ==
    /\ media.calls >= 2
    /\ media.trigger = "click"
    /\ media.appended = 1

\* C34: every form entry with a non-empty value is among the params passed
\* to applyFilters (sort_by aside when sorting is enabled, which is set
\* from the sort control), and when the desktop sort control raised the
\* event with a value, sort_by in the params is that value.
C34_OnlyEmptyParamsRemoved ==
    fcOut.done =>
        /\ \A j \in 1..Len(fcForm) :
              (fcForm[j].v # "" /\ ~(fcEvt.sorting /\ fcForm[j].k = "sort_by")) =>
                  \E m \in 1..Len(fcOut.entries) : fcOut.entries[m] = fcForm[j]
        /\ (fcEvt.sorting /\ fcEvt.fromSelect /\ fcEvt.selected # "") =>
              SpGet(fcOut.entries, "sort_by") = fcEvt.selected

\* C35: a popstate event with a null state starts no applyFilters call and
\* leaves the page as it is; a popstate event with a non-null state starts
\* exactly one applyFilters call, with the searchParams of the state (the
\* empty string when it has none) and without URL update.
C35_PopstateNullIsIgnored ==
    [][(histIdx' # histIdx /\ pushed' = pushed) =>
          IF histEntries[histIdx'].isNull
          THEN /\ nCalls' = nCalls /\ calls' = calls /\ abortCtl' = abortCtl
               /\ formHtml' = formHtml /\ resultsHtml' = resultsHtml
               /\ closeBtnText' = closeBtnText
               /\ resultsLoading' = resultsLoading /\ closeBtnLoading' = closeBtnLoading
               /\ pauseInfiniteScroll' = pauseInfiniteScroll
          ELSE /\ nCalls' = nCalls + 1
               /\ calls'[nCalls'].st = "fetch"
               /\ calls'[nCalls'].src = "popstate"
               /\ calls'[nCalls'].params = histEntries[histIdx'].searchParams
               /\ ~calls'[nCalls'].updateUrl]_vars

\* the user went forward to a pushed entry, which started a call, and is
\* back on the entry of the page load, whose state is null
C35_Witness ==
    /\ histIdx = 1
    /\ Len(histEntries) > 1
    /\ histEntries[1].isNull
    /\ calls[nCalls].src = "popstate"

====
